---- MODULE Spec2Model ----
(***************************************************************************)
(* LosslessCut web backend: the export orchestrator                        *)
(* (services/operation_service.go), the FFmpeg process runner              *)
(* (ffmpeg/executor.go) and the download service                           *)
(* (services/download_service.go).                                         *)
(*                                                                         *)
(* Conventions                                                             *)
(*   - a Go string / error is a sequence of message parts; "" and a nil    *)
(*     error are the empty sequence <<>>;                                  *)
(*   - a file path is a sequence of strings whose head is the directory;   *)
(*   - progress fractions are kept in hundredths, so the fraction 1.0 is   *)
(*     100 and "progress * 100" of the callback keeps the number;          *)
(*   - a goroutine is split into steps at every write to a record that     *)
(*     other goroutines read without synchronisation, and at every         *)
(*     blocking call.                                                      *)
(***************************************************************************)
EXTENDS Integers, Sequences, FiniteSets, TLC

VARIABLES
    \* ---- storage (the files under basePath)
    projects,       \* projects/<id>.llc : project id -> Project
    videos,         \* videos/<id>.json  : set of video ids with metadata
    files,          \* files in outputs/ and temp/
    \* ---- OperationService
    operations,     \* OperationService.operations : id -> Operation
    response,       \* HTTP answer of ProjectHandler.Export
    observed,       \* body of the last answer of OperationHandler.GetStatus
    \* ---- the runExport goroutine (its arguments and locals)
    pc, project, request, segments, branch, idx, tempFiles, sepFiles,
    outputFiles, exportErr, ret,
    \* ---- the external ffmpeg process of the running Execute call
    proc, spawned,
    \* ---- inputs and result of the segment filter when run on its own
    fProject, fIds, fResult, fDone,
    \* ---- DownloadService
    downloads,      \* DownloadService.downloads : set of registered ids
    download,       \* the models.Download record shared by pointer
    stored,         \* downloads/<id>.json as last written
    dpc,            \* position of the runDownload goroutine
    direct,         \* isDirectVideoURL(req.URL)
    cpc,            \* position of a CancelDownload call
    dproc,          \* the yt-dlp process / HTTP body being read
    ppc,            \* position of the parseDownloadProgress goroutine
    pdata,          \* the record as marshalled by that goroutine's UpdateDownload
    \* ---- Executor.MergeVideos when called on its own
    mInputs,        \* the inputs argument
    mDuration,      \* the totalDuration argument
    mProgress,      \* last value given to the onProgress argument
    mpc,            \* position of the call
    \* ---- VideoHandler.handleRangeRequest and copyN
    rHeader,        \* the Range header, one character per element
    rSize,          \* fileSize
    rpc,            \* position of the handler
    rResp,          \* status and headers of the response
    rPos,           \* read offset of the open file
    rSeeks,         \* calls of file.Seek
    rReads,         \* calls of src.Read
    rN,             \* copyN: n
    rWritten,       \* copyN: written
    rChunks,        \* the bytes given to dst.Write, as runs of file offsets
    rErr,           \* copyN: the error returned
    \* ---- parseFFmpegTime
    tStr,           \* timeStr
    tResult,        \* the value in hundredths of a second, or the error
    tpc,
    \* ---- ProgressParser.ParseLine
    lDuration,      \* p.duration
    lLine,          \* line, as its fields
    lResult,        \* the progress in hundredths, -1 for none
    lpc,
    \* ---- ParseFFmpegError
    eStderr,        \* stderr
    eResult,
    epc,
    \* ---- Executor.SmartCut
    kOutput,        \* what ffprobe printed, or its failure
    kStart,         \* opts.Start, in hundredths of a second
    kEnd,           \* opts.End
    kPath,          \* the cut that was called
    kRet,           \* the error returned
    kpc,
    \* ---- concurrent requests on OperationService.operations
    gKind,          \* per request goroutine: Export or GetStatus
    gpc,            \* where it is: before, inside or after its map access
    gRaced,         \* a write by another goroutine overlapped its access
    gSeen,          \* what GetStatus found
    regOps,         \* the keys of s.operations
    gFatal,         \* the runtime stopped the program
    \* ---- Executor.Execute: the process, the stderr reader and the caller
    xPlanned,       \* the lines the process writes to stderr before it exits
    xExitOk,        \* its exit status is 0
    xWritten,       \* lines written to the pipe
    xRead,          \* lines read from the pipe into stderrBuf
    xProc,          \* "running" or "exited"
    xPipeClosed,    \* cmd.Wait has closed the read end of the pipe
    xReader,        \* the goroutine of parseProgress: "reading" or "done"
    xMain,          \* Execute: in cmd.Wait, at <-progressDone, or returned
    xCallbacks,     \* calls of onProgress
    xLate,          \* onProgress was called after Execute returned
    xResult,        \* what Execute returned
    \* ---- concurrent calls of Manager.GetNextVideoNumber
    nFile,          \* video_counter.txt: <<>> missing, else its content
    nCurrent,       \* per caller: currentNum
    npc,            \* per caller: where it is
    nGot,           \* per caller: the number returned
    \* ---- concurrent segment mutations of one project
    sInitial,       \* Segments of the project file before the calls
    sStored,        \* Segments of the project file
    sTruncated,     \* os.WriteFile has emptied the file and not written it
    sMutation,      \* per editor: the call it makes
    sLoaded,        \* per editor: Segments of the project it got
    spc,            \* per editor: where it is
    \* ---- SystemHandler: the sessions and the cleanup they start
    hSessions,      \* h.sessions: session id -> Session
    hNow,           \* time.Now(), in seconds
    hPending,       \* ClearEverything calls decided on and not yet begun
    hClearing       \* ClearEverything calls that are running

storeVars == <<projects, videos, files>>
opVars    == <<operations, response, observed>>
taskVars  == <<pc, project, request, segments, branch, idx, tempFiles,
               sepFiles, outputFiles, exportErr, ret>>
procVars  == <<proc, spawned>>
exportVars == <<storeVars, opVars, taskVars, procVars>>
filterVars == <<fProject, fIds, fResult, fDone>>
progVars == <<ppc, pdata>>
downloadVars == <<downloads, download, stored, dpc, direct, cpc, dproc, progVars>>
mergeVars == <<mInputs, mDuration, mProgress, mpc>>
rangeVars == <<rHeader, rSize, rpc, rResp, rPos, rSeeks, rReads, rN, rWritten,
               rChunks, rErr>>
timeVars == <<tStr, tResult, tpc>>
lineVars == <<lDuration, lLine, lResult, lpc>>
errorVars == <<eStderr, eResult, epc>>
parseVars == <<timeVars, lineVars, errorVars>>
smartVars == <<kOutput, kStart, kEnd, kPath, kRet, kpc>>
registryVars == <<gKind, gpc, gRaced, gSeen, regOps, gFatal>>
execVars == <<xPlanned, xExitOk, xWritten, xRead, xProc, xPipeClosed, xReader,
              xMain, xCallbacks, xLate, xResult>>
numberVars == <<nFile, nCurrent, npc, nGot>>
editVars == <<sInitial, sStored, sTruncated, sMutation, sLoaded, spc>>
sessionVars == <<hSessions, hNow, hPending, hClearing>>
\* ---- later units: variables
\* the groups of the remaining units, and each unit's view of the others
exceptSmart == <<registryVars, execVars, numberVars, editVars, sessionVars>>
exceptRegistry == <<smartVars, execVars, numberVars, editVars, sessionVars>>
exceptExec == <<smartVars, registryVars, numberVars, editVars, sessionVars>>
exceptNumber == <<smartVars, registryVars, execVars, editVars, sessionVars>>
exceptEdit == <<smartVars, registryVars, execVars, numberVars, sessionVars>>
exceptSession == <<smartVars, registryVars, execVars, numberVars, editVars>>
lateVars == <<smartVars, registryVars, execVars, numberVars, editVars, sessionVars>>
earlyVars == <<exportVars, filterVars, downloadVars, mergeVars, rangeVars,
               parseVars>>
\* ---- end of later units: variables
unitVars == <<mergeVars, rangeVars, parseVars, lateVars>>
vars == <<exportVars, filterVars, downloadVars, unitVars>>

----------------------------------------------------------------------------
\* Bounds of the model

\* longest segment list of a project
MaxSegs == 2
\* longest list of requested segment ids given to the filter
MaxIds == 2
\* chunks of an HTTP body / progress lines of yt-dlp in one download
MaxChunks == 2

----------------------------------------------------------------------------
\* Values

\* seg.End defaults to seg.Start + 60.0 when nil
DefaultSegLen == 60

Nil == <<>>

Seg(id, start, hasEnd, end) ==
    [ID |-> id, Start |-> start, HasEnd |-> hasEnd, End |-> end]

SegA == Seg("a", 0, TRUE, 2)
SegB == Seg("b", 4, FALSE, 0)
SegA2 == Seg("a", 6, TRUE, 8)

\* segments the exported project is built from
SegmentPool == {SegA, SegB}
\* segments given to the filter: two of them share an id
FilterPool == {SegA, SegB, SegA2}
\* requested ids: two known ones and an unknown one
IdPool == {"a", "b", "x"}

SeqsUpTo(S, n) == UNION {[1..k -> S] : k \in 0..n}

ProjectID == "p1"
VideoID == "v1"
OperationID == "op1"

Requests ==
    [SegmentIDs : {<<>>} \cup {<<i>> : i \in IdPool},
     MergeSegments : BOOLEAN,
     ExportSeparate : BOOLEAN,
     ExportChapters : BOOLEAN,
     ChaptersFormat : {"txt", ""}]

NoRequest ==
    [SegmentIDs |-> <<>>, MergeSegments |-> FALSE, ExportSeparate |-> FALSE,
     ExportChapters |-> FALSE, ChaptersFormat |-> ""]

NoProject == [ID |-> "", VideoID |-> "", Segments |-> <<>>]

NoProc == [running |-> FALSE, kind |-> "", output |-> <<>>, duration |-> 0,
           hasCallback |-> FALSE, time |-> 0, args |-> <<>>]

\* models.Operation
NewOperation(id, projectID) ==
    [ID |-> id, Type |-> "export", ProjectID |-> projectID,
     Status |-> "pending", Progress |-> 0, Error |-> Nil,
     OutputFiles |-> <<>>, CompletedAt |-> FALSE]

----------------------------------------------------------------------------
\* Pure helpers of the export

\* end := seg.Start + 60.0; if seg.End != nil { end = *seg.End }
EndOf(seg) == IF seg.HasEnd THEN seg.End ELSE seg.Start + DefaultSegLen

\* CutVideo: duration := end - start
CutDuration(seg) == EndOf(seg) - seg.Start

RECURSIVE TotalDuration(_)
TotalDuration(segs) ==
    IF segs = <<>> THEN 0
    ELSE CutDuration(Head(segs)) + TotalDuration(Tail(segs))

\* mutant of InnerLoop: the break after the append is missing
RECURSIVE InnerLoopNoBreak(_, _, _, _)
InnerLoopNoBreak(seg, ids, j, acc) ==
    IF j > Len(ids) THEN acc
    ELSE IF seg.ID = ids[j]
         THEN InnerLoopNoBreak(seg, ids, j + 1, Append(acc, seg))
         ELSE InnerLoopNoBreak(seg, ids, j + 1, acc)

\* for _, id := range request.SegmentIDs { if seg.ID == id { append; break } }
RECURSIVE InnerLoop(_, _, _, _)
InnerLoop(seg, ids, j, acc) ==
    IF j > Len(ids) THEN acc
    ELSE IF seg.ID = ids[j]
         THEN Append(acc, seg)
         ELSE InnerLoop(seg, ids, j + 1, acc)

\* for _, seg := range project.Segments { ... }
RECURSIVE OuterLoop(_, _, _, _)
OuterLoop(segs, ids, k, acc) ==
    IF k > Len(segs) THEN acc
    ELSE OuterLoop(segs, ids, k + 1, InnerLoop(segs[k], ids, 1, acc))

\* mutant of EffectiveSegments: an empty selection falls back to every segment
EffectiveSegmentsOrAll(segs, ids) ==
    IF Len(ids) > 0 /\ OuterLoop(segs, ids, 1, <<>>) # <<>>
    THEN OuterLoop(segs, ids, 1, <<>>) ELSE segs

\* the effective segment list of runExport
EffectiveSegments(segs, ids) ==
    IF Len(ids) > 0 THEN OuterLoop(segs, ids, 1, <<>>) ELSE segs

\* ProgressParser.ParseLine on a line whose time field parsed to currentTime:
\* -1 for a negative time or a duration <= 0, else min(currentTime/duration, 1)
ParseLine(duration, currentTime) ==
    IF currentTime < 0 THEN -1
    ELSE IF duration <= 0 THEN -1
    ELSE IF (currentTime * 100) \div duration > 100 THEN 100
    ELSE (currentTime * 100) \div duration

\* elapsed times one ffmpeg run may report: half way, the end, past the end
Times(duration) == {duration \div 2, duration, duration + 1}

\* storage.GetOutputPath / GetTempPath of the names runExport builds
SinglePath == <<"outputs", "name", ".mp4">>
MergedPath == <<"outputs", "name", "_merged", ".mp4">>
SegmentPath(i) == <<"outputs", "name", "_segment_", ToString(i), ".mp4">>
ChaptersPath(fmt) == <<"outputs", "name", "_chapters", ".", fmt>>
TempPath(i) == <<"temp", "segment_", ToString(i), "_uuid", ".mp4">>
ConcatFile(output) == output \o <<".concat.txt">>

\* strings.HasSuffix(outputPath, ".txt" | ".xml" | ".json")
SupportedChapters(path) ==
    /\ Len(path) >= 2
    /\ path[Len(path) - 1] = "."
    /\ path[Len(path)] \in {"txt", "xml", "json"}

----------------------------------------------------------------------------
\* Order of the export branches of runExport for more than one segment

\* line 172: the default merge runs when no flag is set
AfterChapters(req) ==
    IF ~req.MergeSegments /\ ~req.ExportSeparate /\ ~req.ExportChapters
    THEN "default" ELSE "finish"

\* line 161: if request.ExportChapters && exportErr == nil
AfterSeparate(req, err) ==
    IF req.ExportChapters /\ err = Nil THEN "chapters" ELSE AfterChapters(req)

\* mutant of AfterMerged: the separate branch does not look at exportErr
AfterMergedIgnoringErr(req, err) ==
    IF req.ExportSeparate THEN "separate" ELSE AfterSeparate(req, err)

\* line 150: if request.ExportSeparate && exportErr == nil
AfterMerged(req, err) ==
    IF req.ExportSeparate /\ err = Nil THEN "separate"
    ELSE AfterSeparate(req, err)

\* line 141: if request.MergeSegments
FirstBranch(req) ==
    IF req.MergeSegments THEN "merged" ELSE AfterMerged(req, Nil)

\* mutant of Dispatch: a single segment is exported by the flags too
DispatchByFlags(segs, req) == FirstBranch(req)

\* line 127: if len(segments) == 1 { single cut } else { the flags decide }
Dispatch(segs, req) ==
    IF Len(segs) = 1 THEN "single" ELSE FirstBranch(req)

BranchPc(b) ==
    CASE b \in {"single", "merged", "default", "separate"} -> "cut"
      [] b = "chapters" -> "chapters"
      [] OTHER -> "finish"

Goto(b) ==
    /\ branch' = b
    /\ idx' = 1
    /\ pc' = BranchPc(b)

\* the output path of the merge of the running branch
MergeOutput(b) == IF b = "merged" THEN MergedPath ELSE SinglePath

\* the output path of the cut of segment i (1-based) in branch b
CutOutput(b, i) ==
    CASE b = "single" -> SinglePath
      [] b \in {"merged", "default"} -> TempPath(i - 1)
      [] OTHER -> SegmentPath(i)

\* mutant of CutHasCallback: every cut gets onProgress
CutHasCallbackAlways(b) == TRUE

\* exportMergedSegments passes nil, the other cuts pass onProgress
CutHasCallback(b) == b \in {"single", "separate"}

Range(s) == {s[i] : i \in DOMAIN s}

----------------------------------------------------------------------------
\* Export: state after construction

TaskIdle ==
    /\ files = {}
    /\ operations = <<>>
    /\ response = Nil
    /\ observed = <<>>
    /\ pc = "idle"
    /\ project = NoProject
    /\ request = NoRequest
    /\ segments = <<>>
    /\ branch = ""
    /\ idx = 0
    /\ tempFiles = <<>>
    /\ sepFiles = <<>>
    /\ outputFiles = <<>>
    /\ exportErr = Nil
    /\ ret = Nil
    /\ proc = NoProc
    /\ spawned = <<>>

\* the storage holds no project, or one project whose video may be missing
InitExport ==
    /\ projects \in {<<>>} \cup
         {(ProjectID :> [ID |-> ProjectID, VideoID |-> VideoID, Segments |-> s]) :
            s \in SeqsUpTo(SegmentPool, MaxSegs)}
    /\ videos \in {{}, {VideoID}}
    /\ TaskIdle

ExportIdle ==
    /\ projects = <<>>
    /\ videos = {}
    /\ TaskIdle

\* operation.Status = <status>
WriteStatus(op, status) == [op EXCEPT !.Status = status]

SetStatus(status) ==
    operations' = [operations EXCEPT
                     ![OperationID] = WriteStatus(operations[OperationID], status)]

----------------------------------------------------------------------------
\* ProjectHandler.Export and OperationService.Export

\* mutant of Export: the handler does not stop at a missing project
ExportUnchecked(pid, req) ==
    /\ pc = "idle"
    /\ response = Nil
    /\ operations' = operations @@ (OperationID :> NewOperation(OperationID, pid))
    /\ pc' = "start"
    /\ project' = IF pid \in DOMAIN projects THEN projects[pid]
                  ELSE [NoProject EXCEPT !.ID = pid]
    /\ request' = req
    /\ response' = <<"202", OperationID>>
    /\ UNCHANGED <<storeVars, observed, segments, branch, idx, tempFiles,
                   sepFiles, outputFiles, exportErr, ret, procVars>>
    /\ UNCHANGED <<filterVars, downloadVars, unitVars>>

Export(pid, req) ==
    /\ pc = "idle"
    /\ response = Nil
    /\ IF pid \notin DOMAIN projects
       THEN /\ response' = <<"404", "project not found">>
            /\ UNCHANGED <<operations, pc, project, request>>
       ELSE /\ operations' =
                operations @@ (OperationID :> NewOperation(OperationID, pid))
            /\ pc' = "start"
            /\ project' = projects[pid]
            /\ request' = req
            /\ response' = <<"202", OperationID>>
    /\ UNCHANGED <<storeVars, observed, segments, branch, idx, tempFiles,
                   sepFiles, outputFiles, exportErr, ret, procVars>>
    /\ UNCHANGED <<filterVars, downloadVars, unitVars>>

\* OperationHandler.GetStatus / OperationService.GetStatus
GetStatus(id) ==
    /\ id \in DOMAIN operations
    /\ observed' = <<operations[id]>>
    /\ UNCHANGED <<storeVars, operations, response, taskVars, procVars>>
    /\ UNCHANGED <<filterVars, downloadVars, unitVars>>

----------------------------------------------------------------------------
\* runExport

\* line 57
RunExportBegin ==
    /\ pc = "start"
    /\ SetStatus("processing")
    /\ pc' = "getVideo"
    /\ UNCHANGED <<storeVars, response, observed, project, request, segments,
                   branch, idx, tempFiles, sepFiles, outputFiles, exportErr,
                   ret, procVars>>
    /\ UNCHANGED <<filterVars, downloadVars, unitVars>>

\* mutant of GetVideo: the lookup never reports a missing video
GetVideoAlwaysFound(store, id) == TRUE

\* storage.GetVideo(id) finds the metadata of the video
GetVideo(store, id) == id \in store

\* lines 61-63
ResolveVideo ==
    /\ pc = "getVideo"
    /\ IF GetVideo(videos, project.VideoID)
       THEN /\ pc' = "segments"
            /\ UNCHANGED <<operations, ret>>
       ELSE /\ SetStatus("failed")
            /\ ret' = <<"video not found: ", project.VideoID>>
            /\ pc' = "setErrorVideo"
    /\ UNCHANGED <<storeVars, response, observed, project, request, segments,
                   branch, idx, tempFiles, sepFiles, outputFiles, exportErr,
                   procVars>>
    /\ UNCHANGED <<filterVars, downloadVars, unitVars>>

\* line 64
SetErrorVideo ==
    /\ pc = "setErrorVideo"
    /\ operations' = [operations EXCEPT
                        ![OperationID].Error = <<"video not found: ">> \o ret]
    /\ pc' = "done"
    /\ UNCHANGED <<storeVars, response, observed, project, request, segments,
                   branch, idx, tempFiles, sepFiles, outputFiles, exportErr,
                   ret, procVars>>
    /\ UNCHANGED <<filterVars, downloadVars, unitVars>>

\* lines 82-98 and the dispatch of lines 127, 141-172
ResolveSegments ==
    /\ pc = "segments"
    /\ LET segs == EffectiveSegments(project.Segments, request.SegmentIDs) IN
         /\ segments' = segs
         /\ IF Len(segs) = 0
            THEN /\ SetStatus("failed")
                 /\ pc' = "setErrorNoSegments"
                 /\ UNCHANGED <<branch, idx>>
            ELSE /\ Goto(Dispatch(segs, request))
                 /\ UNCHANGED operations
    /\ UNCHANGED <<storeVars, response, observed, project, request, tempFiles,
                   sepFiles, outputFiles, exportErr, ret, procVars>>
    /\ UNCHANGED <<filterVars, downloadVars, unitVars>>

\* line 99
SetErrorNoSegments ==
    /\ pc = "setErrorNoSegments"
    /\ operations' = [operations EXCEPT
                        ![OperationID].Error = <<"no segments to export">>]
    /\ pc' = "done"
    /\ UNCHANGED <<storeVars, response, observed, project, request, segments,
                   branch, idx, tempFiles, sepFiles, outputFiles, exportErr,
                   ret, procVars>>
    /\ UNCHANGED <<filterVars, downloadVars, unitVars>>

----------------------------------------------------------------------------
\* Executor.CutVideo / MergeVideos / Execute and the ffmpeg process

NewProc(kind, output, duration, hasCallback) ==
    [running |-> TRUE, kind |-> kind, output |-> output,
     duration |-> duration, hasCallback |-> hasCallback, time |-> -1,
     args |-> <<>>]

\* lines 129-135, 210-219, 250-258: the call of CutVideo up to cmd.Start
CutVideoCall ==
    /\ pc = "cut"
    /\ LET out == CutOutput(branch, idx) IN
         /\ tempFiles' = IF branch \in {"merged", "default"}
                         THEN Append(tempFiles, out) ELSE tempFiles
         /\ \E started \in BOOLEAN :
              IF started
              THEN /\ proc' = [NewProc("cut", out, CutDuration(segments[idx]),
                                       CutHasCallback(branch))
                                 EXCEPT !.args = <<segments[idx].Start,
                                                   EndOf(segments[idx])>>]
                   /\ spawned' = Append(spawned, [kind |-> "cut", output |-> out])
                   /\ pc' = "exec"
                   /\ ret' = ret
              ELSE /\ ret' = <<"failed to start ffmpeg">>
                   /\ pc' = "cutReturn"
                   /\ UNCHANGED procVars
    /\ UNCHANGED <<storeVars, opVars, project, request, segments, branch, idx,
                   sepFiles, outputFiles, exportErr>>
    /\ UNCHANGED <<filterVars, downloadVars, unitVars>>

\* onProgress: operation.Progress = progress * 100
OnProgress(op, progress) == [op EXCEPT !.Progress = progress]

\* parseProgress on one progress line written by the process
ProcProgress ==
    /\ pc = "exec"
    /\ proc.running
    /\ \E t \in Times(proc.duration) :
         /\ t > proc.time
         /\ proc' = [proc EXCEPT !.time = t]
         /\ LET progress == ParseLine(proc.duration, t) IN
              IF proc.hasCallback /\ progress >= 0
              THEN operations' =
                     [operations EXCEPT
                        ![OperationID] = OnProgress(operations[OperationID],
                                                    progress)]
              ELSE UNCHANGED operations
    /\ UNCHANGED <<storeVars, response, observed, taskVars, spawned>>
    /\ UNCHANGED <<filterVars, downloadVars, unitVars>>

\* Execute lines 106-125: the process exits, the reader is done, Execute returns
ExecuteReturns ==
    /\ proc.running
    /\ \E ok \in BOOLEAN, wrote \in BOOLEAN :
         /\ ok => wrote
         /\ files' = IF wrote THEN files \cup {proc.output} ELSE files
         /\ ret' = IF ok THEN Nil ELSE <<"ffmpeg failed: ", "stderr">>
    /\ proc' = NoProc

\* Execute returns to CutVideo or MergeVideos and these to runExport
ProcExit ==
    /\ pc = "exec"
    /\ ExecuteReturns
    /\ pc' = IF proc.kind = "cut" THEN "cutReturn" ELSE "mergeReturn"
    /\ UNCHANGED <<projects, videos, opVars, project, request, segments,
                   branch, idx, tempFiles, sepFiles, outputFiles, exportErr,
                   spawned>>
    /\ UNCHANGED <<filterVars, downloadVars, unitVars>>

\* what runExport does with the result of one CutVideo call:
\* lines 136-138 (single), 219-222 and 144-147 / 174-177 (fragment of a merge),
\* 258-265 and 153-157 (separate)
CutReturn ==
    /\ pc = "cutReturn"
    /\ CASE branch = "single" ->
              /\ exportErr' = ret
              /\ outputFiles' = IF ret = Nil
                                THEN Append(outputFiles, SinglePath)
                                ELSE outputFiles
              /\ Goto("finish")
              /\ UNCHANGED sepFiles
         [] branch \in {"merged", "default"} ->
              /\ UNCHANGED <<outputFiles, sepFiles>>
              /\ IF ret # Nil
                 THEN /\ exportErr' = <<"failed to cut segment ",
                                        ToString(idx - 1), ": ">> \o ret
                      /\ Goto(IF branch = "merged"
                              THEN AfterMerged(request, exportErr')
                              ELSE "finish")
                 ELSE /\ UNCHANGED <<exportErr, branch>>
                      /\ IF idx < Len(segments)
                         THEN idx' = idx + 1 /\ pc' = "cut"
                         ELSE idx' = idx /\ pc' = "merge"
         [] OTHER ->
              IF ret # Nil
              THEN /\ exportErr' = <<"failed to export segment ",
                                     ToString(idx - 1), ": ">> \o ret
                   /\ Goto(AfterSeparate(request, exportErr'))
                   /\ UNCHANGED <<outputFiles, sepFiles>>
              ELSE /\ sepFiles' = Append(sepFiles, SegmentPath(idx))
                   /\ UNCHANGED exportErr
                   /\ IF idx < Len(segments)
                      THEN /\ idx' = idx + 1
                           /\ pc' = "cut"
                           /\ UNCHANGED <<branch, outputFiles>>
                      ELSE /\ outputFiles' = outputFiles \o sepFiles'
                           /\ Goto(AfterSeparate(request, exportErr))
    /\ UNCHANGED <<storeVars, opVars, project, request, segments, tempFiles,
                   ret, procVars>>
    /\ UNCHANGED <<filterVars, downloadVars, unitVars>>

\* mutant of ConcatContent: the entries are written last input first
ConcatContentReversed(inputs) ==
    [i \in DOMAIN inputs |-> <<"file '", inputs[Len(inputs) + 1 - i], "'">>]

\* MergeVideos lines 217-220: one entry per input, in the order of the inputs
ConcatContent(inputs) ==
    [i \in DOMAIN inputs |-> <<"file '", inputs[i], "'">>]

\* mutant of AfterDeferred: the list file is removed on success only
AfterDeferredOnSuccess(fs, out, err) ==
    IF err = Nil THEN fs \ {ConcatFile(out)} ELSE fs

\* lines 223-226: defer os.Remove(concatFile) is in force on every return
\* after the list file was written, not on the return at line 224
AfterDeferred(fs, out, err) ==
    IF err = <<"failed to create concat file">> THEN fs
    ELSE fs \ {ConcatFile(out)}

\* MergeVideos lines 216-245 up to cmd.Start: the list file is written
\* whatever the inputs are, then ffmpeg is started
MergeVideos(inputs, out, duration, outcome) ==
    CASE outcome = "nolist" ->
           /\ \E created \in BOOLEAN :
                files' = IF created THEN files \cup {ConcatFile(out)} ELSE files
           /\ ret' = <<"failed to create concat file">>
           /\ UNCHANGED procVars
      [] outcome = "nostart" ->
           /\ files' = files \cup {ConcatFile(out)}
           /\ ret' = <<"failed to start ffmpeg">>
           /\ UNCHANGED procVars
      [] OTHER ->
           /\ files' = files \cup {ConcatFile(out)}
           /\ proc' = [NewProc("merge", out, duration, TRUE)
                         EXCEPT !.args = ConcatContent(inputs)]
           /\ spawned' = Append(spawned, [kind |-> "merge", output |-> out])
           /\ ret' = ret

\* the call of MergeVideos at line 234
MergeVideosCall ==
    /\ pc = "merge"
    /\ \E outcome \in {"nolist", "nostart", "started"} :
         /\ MergeVideos(tempFiles, MergeOutput(branch), TotalDuration(segments),
                        outcome)
         /\ pc' = IF outcome = "started" THEN "exec" ELSE "mergeReturn"
    /\ UNCHANGED <<projects, videos, opVars, project, request, segments,
                   branch, idx, tempFiles, sepFiles, outputFiles, exportErr>>
    /\ UNCHANGED <<filterVars, downloadVars, unitVars>>

\* mutant of FragmentsToDelete: the fragments are never deleted
FragmentsKept(temps, err) == {}

\* mutant of FragmentsToDelete: the fragments are deleted on failure too
FragmentsDeletedAlways(temps, err) == Range(temps)

\* exportMergedSegments lines 238-241: the fragments deleted after the merge
FragmentsToDelete(temps, err) == IF err = Nil THEN Range(temps) ELSE {}

\* MergeVideos returns (deferred os.Remove(concatFile), line 226), then
\* exportMergedSegments lines 234-243 and runExport lines 145-147 / 175-177
MergeReturn ==
    /\ pc = "mergeReturn"
    /\ LET out == MergeOutput(branch) IN
         /\ files' = AfterDeferred(files, out, ret)
                        \ FragmentsToDelete(tempFiles, ret)
         /\ exportErr' = IF ret = Nil THEN Nil
                         ELSE <<"failed to merge segments: ">> \o ret
         /\ outputFiles' = IF ret = Nil THEN Append(outputFiles, out)
                           ELSE outputFiles
         /\ Goto(IF branch = "merged" THEN AfterMerged(request, exportErr')
                 ELSE "finish")
    /\ UNCHANGED <<projects, videos, opVars, project, request, segments,
                   tempFiles, sepFiles, ret, procVars>>
    /\ UNCHANGED <<filterVars, downloadVars, unitVars>>

\* exportChapters (lines 269-284) and runExport lines 162-168
ExportChapters ==
    /\ pc = "chapters"
    /\ LET path == ChaptersPath(request.ChaptersFormat) IN
         IF ~SupportedChapters(path)
         THEN /\ exportErr' = <<"unsupported chapters format">>
              /\ UNCHANGED <<files, outputFiles>>
         ELSE \E ok \in BOOLEAN :
                IF ok
                THEN /\ files' = files \cup {path}
                     /\ outputFiles' = Append(outputFiles, path)
                     /\ UNCHANGED exportErr
                ELSE /\ exportErr' = <<"write ", "failed">>
                     /\ UNCHANGED <<files, outputFiles>>
    /\ Goto(AfterChapters(request))
    /\ UNCHANGED <<projects, videos, opVars, project, request, segments,
                   tempFiles, sepFiles, ret, procVars>>
    /\ UNCHANGED <<filterVars, downloadVars, unitVars>>

\* lines 181-182 and 193
Finish ==
    /\ pc = "finish"
    /\ IF exportErr # Nil
       THEN SetStatus("failed") /\ pc' = "setErrorExport"
       ELSE SetStatus("completed") /\ pc' = "setProgress"
    /\ UNCHANGED <<storeVars, response, observed, project, request, segments,
                   branch, idx, tempFiles, sepFiles, outputFiles, exportErr,
                   ret, procVars>>
    /\ UNCHANGED <<filterVars, downloadVars, unitVars>>

\* line 183
SetErrorExport ==
    /\ pc = "setErrorExport"
    /\ operations' = [operations EXCEPT ![OperationID].Error = exportErr]
    /\ pc' = "done"
    /\ UNCHANGED <<storeVars, response, observed, project, request, segments,
                   branch, idx, tempFiles, sepFiles, outputFiles, exportErr,
                   ret, procVars>>
    /\ UNCHANGED <<filterVars, downloadVars, unitVars>>

\* line 194
SetProgress ==
    /\ pc = "setProgress"
    /\ operations' = [operations EXCEPT ![OperationID].Progress = 100]
    /\ pc' = "setCompletedAt"
    /\ UNCHANGED <<storeVars, response, observed, project, request, segments,
                   branch, idx, tempFiles, sepFiles, outputFiles, exportErr,
                   ret, procVars>>
    /\ UNCHANGED <<filterVars, downloadVars, unitVars>>

\* line 195
SetCompletedAt ==
    /\ pc = "setCompletedAt"
    /\ operations' = [operations EXCEPT ![OperationID].CompletedAt = TRUE]
    /\ pc' = "setOutputFiles"
    /\ UNCHANGED <<storeVars, response, observed, project, request, segments,
                   branch, idx, tempFiles, sepFiles, outputFiles, exportErr,
                   ret, procVars>>
    /\ UNCHANGED <<filterVars, downloadVars, unitVars>>

\* line 196
SetOutputFiles ==
    /\ pc = "setOutputFiles"
    /\ operations' = [operations EXCEPT ![OperationID].OutputFiles = outputFiles]
    /\ pc' = "done"
    /\ UNCHANGED <<storeVars, response, observed, project, request, segments,
                   branch, idx, tempFiles, sepFiles, outputFiles, exportErr,
                   ret, procVars>>
    /\ UNCHANGED <<filterVars, downloadVars, unitVars>>

----------------------------------------------------------------------------
\* Idle values of the parts a specification does not exercise

FilterIdle ==
    /\ fProject = <<>>
    /\ fIds = <<>>
    /\ fResult = <<>>
    /\ fDone = FALSE

NoDownload ==
    [ID |-> "", Status |-> "", Progress |-> 0, Title |-> "", FilePath |-> "",
     VideoID |-> "", Error |-> Nil]

DownloadIdle ==
    /\ downloads = {}
    /\ download = NoDownload
    /\ stored = <<>>
    /\ dpc = "idle"
    /\ direct = FALSE
    /\ cpc = "idle"
    /\ dproc = 0
    /\ ppc = "idle"
    /\ pdata = <<>>

MergeIdle ==
    /\ mInputs = <<>>
    /\ mDuration = 0
    /\ mProgress = 0 - 1
    /\ mpc = "idle"

NoResponse == [status |-> 0, error |-> "", contentRange |-> <<>>,
               contentLength |-> 0]

RangeIdle ==
    /\ rHeader = <<>>
    /\ rSize = 0
    /\ rpc = "idle"
    /\ rResp = NoResponse
    /\ rPos = 0
    /\ rSeeks = 0
    /\ rReads = 0
    /\ rN = 0
    /\ rWritten = 0
    /\ rChunks = <<>>
    /\ rErr = ""

TimeIdle == tStr = <<>> /\ tResult = <<>> /\ tpc = "idle"
LineIdle == lDuration = 0 /\ lLine = <<>> /\ lResult = 0 /\ lpc = "idle"
ErrorIdle == eStderr = <<>> /\ eResult = <<>> /\ epc = "idle"
ParseIdle == TimeIdle /\ LineIdle /\ ErrorIdle

SmartIdle ==
    /\ kOutput = <<>>
    /\ kStart = 0
    /\ kEnd = 0
    /\ kPath = ""
    /\ kRet = <<>>
    /\ kpc = "idle"

RegistryIdle ==
    /\ gKind = <<>>
    /\ gpc = <<>>
    /\ gRaced = <<>>
    /\ gSeen = <<>>
    /\ regOps = {}
    /\ gFatal = FALSE
ExecIdle ==
    /\ xPlanned = 0
    /\ xExitOk = TRUE
    /\ xWritten = 0
    /\ xRead = 0
    /\ xProc = "idle"
    /\ xPipeClosed = FALSE
    /\ xReader = "idle"
    /\ xMain = "idle"
    /\ xCallbacks = 0
    /\ xLate = FALSE
    /\ xResult = <<>>
NumberIdle ==
    /\ nFile = <<>>
    /\ nCurrent = <<>>
    /\ npc = <<>>
    /\ nGot = <<>>
EditIdle ==
    /\ sInitial = <<>>
    /\ sStored = <<>>
    /\ sTruncated = FALSE
    /\ sMutation = <<>>
    /\ sLoaded = <<>>
    /\ spc = <<>>
SessionIdle ==
    /\ hSessions = <<>>
    /\ hNow = 0
    /\ hPending = 0
    /\ hClearing = 0
\* ---- later units: idle
\* every later unit but one is idle
IdleExceptSmart == RegistryIdle /\ ExecIdle /\ NumberIdle /\ EditIdle /\ SessionIdle
IdleExceptRegistry == SmartIdle /\ ExecIdle /\ NumberIdle /\ EditIdle /\ SessionIdle
IdleExceptExec == SmartIdle /\ RegistryIdle /\ NumberIdle /\ EditIdle /\ SessionIdle
IdleExceptNumber == SmartIdle /\ RegistryIdle /\ ExecIdle /\ EditIdle /\ SessionIdle
IdleExceptEdit == SmartIdle /\ RegistryIdle /\ ExecIdle /\ NumberIdle /\ SessionIdle
IdleExceptSession == SmartIdle /\ RegistryIdle /\ ExecIdle /\ NumberIdle /\ EditIdle
LateIdle == SmartIdle /\ RegistryIdle /\ ExecIdle /\ NumberIdle /\ EditIdle /\ SessionIdle
EarlyIdle ==
    /\ ExportIdle
    /\ FilterIdle
    /\ DownloadIdle
    /\ MergeIdle
    /\ RangeIdle
    /\ ParseIdle
\* ---- end of later units: idle
UnitIdle == MergeIdle /\ RangeIdle /\ ParseIdle /\ LateIdle

----------------------------------------------------------------------------
\* The export specification

Init == InitExport /\ FilterIdle /\ DownloadIdle /\ UnitIdle

RunExport ==
    \/ RunExportBegin
    \/ ResolveVideo
    \/ SetErrorVideo
    \/ ResolveSegments
    \/ SetErrorNoSegments
    \/ CutVideoCall
    \/ ProcProgress
    \/ ProcExit
    \/ CutReturn
    \/ MergeVideosCall
    \/ MergeReturn
    \/ ExportChapters
    \/ Finish
    \/ SetErrorExport
    \/ SetProgress
    \/ SetCompletedAt
    \/ SetOutputFiles

Next ==
    \/ \E req \in Requests : Export(ProjectID, req)
    \/ GetStatus(OperationID)
    \/ RunExport

Spec == Init /\ [][Next]_vars

----------------------------------------------------------------------------
\* The segment filter of runExport (lines 82-95) on its own inputs

InitFilter ==
    /\ fProject \in SeqsUpTo(FilterPool, MaxSegs)
    /\ fIds \in SeqsUpTo(IdPool, MaxIds)
    /\ fResult = <<>>
    /\ fDone = FALSE
    /\ ExportIdle
    /\ DownloadIdle
    /\ UnitIdle

ApplyFilter ==
    /\ ~fDone
    /\ fResult' = EffectiveSegments(fProject, fIds)
    /\ fDone' = TRUE
    /\ UNCHANGED <<fProject, fIds, exportVars, downloadVars, unitVars>>

NextFilter == ApplyFilter

FilterSpec == InitFilter /\ [][NextFilter]_vars

----------------------------------------------------------------------------
\* DownloadService

DownloadID == "d1"

\* models.Download as StartDownload builds it and CreateDownload names it
NewDownload(id) ==
    [ID |-> id, Status |-> "pending", Progress |-> 0, Title |-> "",
     FilePath |-> "", VideoID |-> "", Error |-> Nil]

\* storage.UpdateDownload: the record is written to downloads/<id>.json
UpdateDownload(d) == <<d>>

\* download.Status = failed; download.Error = err; UpdateDownload; return
FailDownload(err) ==
    /\ download' = [download EXCEPT !.Status = "failed", !.Error = err]
    /\ stored' = UpdateDownload(download')
    /\ dpc' = "done"
    /\ UNCHANGED downloads

\* StartDownload, lines 54-74
StartDownload(isDirect) ==
    /\ dpc = "idle"
    /\ download' = NewDownload(DownloadID)
    /\ stored' = UpdateDownload(download')
    /\ downloads' = downloads \cup {DownloadID}
    /\ direct' = isDirect
    /\ dpc' = "start"
    /\ UNCHANGED <<cpc, dproc, exportVars, filterVars, unitVars, progVars>>

\* CancelDownload, lines 97-103: the lookup under the mutex (an id that is
\* not registered is answered with an error and changes nothing)
CancelLookup(id) ==
    /\ cpc = "idle"
    /\ id \in downloads
    /\ cpc' = "found"
    /\ UNCHANGED <<downloads, download, stored, dpc, direct, dproc,
                   exportVars, filterVars, unitVars, progVars>>

\* CancelDownload, lines 105-110: the write through the pointer
CancelWrite ==
    /\ cpc = "found"
    /\ download' = [download EXCEPT !.Status = "cancelled"]
    /\ stored' = UpdateDownload(download')
    /\ cpc' = "idle"
    /\ UNCHANGED <<downloads, dpc, direct, dproc, exportVars, filterVars, unitVars, progVars>>

\* runDownload, lines 142-157
RunDownloadBegin ==
    /\ dpc = "start"
    /\ download' = [download EXCEPT !.Status = "downloading"]
    /\ stored' = UpdateDownload(download')
    /\ dpc' = IF direct THEN "directSetup" ELSE "ytdlpInfo"
    /\ UNCHANGED <<downloads, direct, cpc, dproc, exportVars, filterVars, unitVars, progVars>>

\* runDirectDownload, lines 167-238: directory, title, request, output file
DirectSetup ==
    /\ dpc = "directSetup"
    /\ \E ok \in BOOLEAN :
         IF ok
         THEN /\ download' = [download EXCEPT !.Title = "title"]
              /\ stored' = UpdateDownload(download')
              /\ dpc' = "directLoop"
              /\ UNCHANGED downloads
         ELSE FailDownload(<<"http error">>)
    /\ UNCHANGED <<direct, cpc, dproc, exportVars, filterVars, unitVars, progVars>>

\* runDirectDownload, lines 246-252: the cancellation check of the loop
DirectCheckCancelled ==
    /\ dpc = "directLoop"
    /\ IF download.Status = "cancelled"
       THEN /\ stored' = UpdateDownload(download)
            /\ dpc' = "done"
       ELSE /\ dpc' = "directRead"
            /\ UNCHANGED stored
    /\ UNCHANGED <<downloads, download, direct, cpc, dproc, exportVars,
                   filterVars, unitVars, progVars>>

\* runDirectDownload, lines 254-291: one Read of the body
DirectRead ==
    /\ dpc = "directRead"
    /\ \E outcome \in {"chunk", "chunkProgress", "eof", "error"} :
         CASE outcome = "chunk" ->
                /\ dproc < MaxChunks
                /\ dproc' = dproc + 1
                /\ dpc' = "directLoop"
                /\ UNCHANGED <<downloads, download, stored>>
           [] outcome = "chunkProgress" ->
                /\ dproc < MaxChunks
                /\ dproc' = dproc + 1
                /\ download' = [download EXCEPT
                                  !.Progress = (dproc' * 100) \div (MaxChunks + 1)]
                /\ stored' = UpdateDownload(download')
                /\ dpc' = "directLoop"
                /\ UNCHANGED downloads
           [] outcome = "eof" ->
                /\ dpc' = "import"
                /\ UNCHANGED <<downloads, download, stored, dproc>>
           [] OTHER ->
                /\ FailDownload(<<"read error">>)
                /\ UNCHANGED dproc
    /\ UNCHANGED <<direct, cpc, exportVars, filterVars, unitVars, progVars>>

\* runYtdlpDownload, lines 403-414: getVideoInfo
YtdlpInfo ==
    /\ dpc = "ytdlpInfo"
    /\ \E ok \in BOOLEAN :
         IF ok
         THEN /\ download' = [download EXCEPT !.Title = "title"]
              /\ stored' = UpdateDownload(download')
              /\ dpc' = "ytdlpStart"
              /\ UNCHANGED downloads
         ELSE FailDownload(<<"failed to get video info">>)
    /\ UNCHANGED <<direct, cpc, dproc, exportVars, filterVars, unitVars, progVars>>

\* runYtdlpDownload, lines 417-493: directory, pipes, cmd.Start, and the
\* start of the parseDownloadProgress goroutine (line 485)
YtdlpStart ==
    /\ dpc = "ytdlpStart"
    /\ \E ok \in BOOLEAN :
         IF ok
         THEN /\ dpc' = "ytdlpWait"
              /\ ppc' = "scan"
              /\ UNCHANGED <<downloads, download, stored>>
         ELSE /\ FailDownload(<<"failed to start yt-dlp">>)
              /\ UNCHANGED ppc
    /\ UNCHANGED <<direct, cpc, dproc, pdata, exportVars, filterVars, unitVars>>

\* parseDownloadProgress, lines 584-589: one progress line of the running
\* yt-dlp is scanned and its percentage written to the record
YtdlpProgress ==
    /\ ppc = "scan"
    /\ dpc = "ytdlpWait"
    /\ dproc < MaxChunks
    /\ dproc' = dproc + 1
    /\ download' = [download EXCEPT
                      !.Progress = (dproc' * 100) \div (MaxChunks + 1)]
    /\ ppc' = "marshal"
    /\ UNCHANGED <<downloads, stored, dpc, direct, cpc, pdata, exportVars,
                   filterVars, unitVars>>

\* line 590, storage.UpdateDownload lines 239-244: the record is marshalled
ProgressMarshal ==
    /\ ppc = "marshal"
    /\ pdata' = <<download>>
    /\ ppc' = "write"
    /\ UNCHANGED <<downloads, download, stored, dpc, direct, cpc, dproc,
                   exportVars, filterVars, unitVars>>

\* storage.UpdateDownload lines 246-249: the marshalled bytes are written
ProgressWrite ==
    /\ ppc = "write"
    /\ stored' = pdata
    /\ ppc' = "scan"
    /\ UNCHANGED <<downloads, download, dpc, direct, cpc, dproc, pdata,
                   exportVars, filterVars, unitVars>>

\* runYtdlpDownload, lines 496-508: cmd.Wait returns
YtdlpWait ==
    /\ dpc = "ytdlpWait"
    /\ \E ok \in BOOLEAN :
         IF ok
         THEN /\ dpc' = "import"
              /\ UNCHANGED <<downloads, download, stored>>
         ELSE IF download.Status = "cancelled"
              THEN /\ stored' = UpdateDownload(download)
                   /\ dpc' = "done"
                   /\ UNCHANGED <<downloads, download>>
              ELSE FailDownload(<<"yt-dlp failed">>)
    /\ UNCHANGED <<direct, cpc, dproc, exportVars, filterVars, unitVars, progVars>>

\* lines 293-328 and 513-575: the file is imported, the record completed and
\* the entry deleted from the registry
ImportDownload ==
    /\ dpc = "import"
    /\ \E ok \in BOOLEAN :
         IF ok
         THEN /\ download' = [download EXCEPT !.FilePath = "video1.mp4",
                                              !.VideoID = VideoID,
                                              !.Status = "completed",
                                              !.Progress = 100]
              /\ stored' = UpdateDownload(download')
              /\ downloads' = downloads \ {download.ID}
              /\ dpc' = "done"
         ELSE /\ download' = [download EXCEPT
                                !.FilePath = "video1.mp4",
                                !.Status = "failed",
                                !.Error = <<"failed to import video">>]
              /\ stored' = UpdateDownload(download')
              /\ dpc' = "done"
              /\ UNCHANGED downloads
    /\ UNCHANGED <<direct, cpc, dproc, exportVars, filterVars, unitVars, progVars>>

InitDownload ==
    /\ DownloadIdle
    /\ ExportIdle
    /\ FilterIdle
    /\ UnitIdle

NextDownload ==
    \/ \E isDirect \in BOOLEAN : StartDownload(isDirect)
    \/ CancelLookup(DownloadID)
    \/ CancelWrite
    \/ RunDownloadBegin
    \/ DirectSetup
    \/ DirectCheckCancelled
    \/ DirectRead
    \/ YtdlpInfo
    \/ YtdlpStart
    \/ YtdlpProgress
    \/ ProgressMarshal
    \/ ProgressWrite
    \/ YtdlpWait
    \/ ImportDownload

DownloadSpec == InitDownload /\ [][NextDownload]_vars

----------------------------------------------------------------------------
\* ProjectService: the editing of the stored projects, followed by an export

\* segments a client may send: a valid one and one that ends before it starts
SegBad == Seg("c", 5, TRUE, 3)
EditPool == {SegA, SegBad}

\* the export requests sent after the editing
EditRequests ==
    {r \in Requests : r.SegmentIDs = <<>> /\ r.ChaptersFormat = "txt"}

\* ProjectService.Save: the project file is (over)written
Save(p) == (p.ID :> p) @@ projects

\* ProjectService.Create: a new project with no segments
Create(videoID) ==
    /\ ProjectID \notin DOMAIN projects
    /\ projects' = Save([ID |-> ProjectID, VideoID |-> videoID,
                         Segments |-> <<>>])
    /\ UNCHANGED <<videos, files, opVars, taskVars, procVars, filterVars,
                   downloadVars, unitVars>>

\* ProjectHandler.Update: the body replaces the stored project as it is
Update(id, segs) ==
    /\ projects' = Save([ID |-> id, VideoID |-> VideoID, Segments |-> segs])
    /\ projects' # projects
    /\ UNCHANGED <<videos, files, opVars, taskVars, procVars, filterVars,
                   downloadVars, unitVars>>

\* ProjectService.AddSegment: the segment is appended as it is
AddSegment(projectID, segment) ==
    /\ projectID \in DOMAIN projects
    /\ Len(projects[projectID].Segments) < MaxSegs
    /\ projects' = Save([projects[projectID] EXCEPT
                           !.Segments = Append(@, segment)])
    /\ UNCHANGED <<videos, files, opVars, taskVars, procVars, filterVars,
                   downloadVars, unitVars>>

\* the index of the first segment with the id, 0 when there is none
FirstWithID(segs, id) ==
    IF \E i \in DOMAIN segs : segs[i].ID = id
    THEN CHOOSE i \in DOMAIN segs :
           /\ segs[i].ID = id
           /\ \A j \in 1..(i - 1) : segs[j].ID # id
    ELSE 0

\* ProjectService.UpdateSegment: the first segment with the id is replaced
\* by the updates, which keep the id
UpdateSegment(projectID, segmentID, updates) ==
    /\ projectID \in DOMAIN projects
    /\ LET segs == projects[projectID].Segments
           i == FirstWithID(segs, segmentID) IN
         /\ i # 0
         /\ projects' = Save([projects[projectID] EXCEPT
                                !.Segments[i] = [updates EXCEPT !.ID = segmentID]])
    /\ projects' # projects
    /\ UNCHANGED <<videos, files, opVars, taskVars, procVars, filterVars,
                   downloadVars, unitVars>>

\* ProjectService.DeleteSegment: every segment with the id is dropped
DeleteSegment(projectID, segmentID) ==
    /\ projectID \in DOMAIN projects
    /\ projects' = Save([projects[projectID] EXCEPT
                           !.Segments = SelectSeq(@, LAMBDA seg : seg.ID # segmentID)])
    /\ projects' # projects
    /\ UNCHANGED <<videos, files, opVars, taskVars, procVars, filterVars,
                   downloadVars, unitVars>>

InitProject ==
    /\ projects = <<>>
    /\ videos \in {{}, {VideoID}}
    /\ TaskIdle
    /\ FilterIdle
    /\ DownloadIdle
    /\ UnitIdle

NextProject ==
    \/ Create(VideoID)
    \/ \E segs \in SeqsUpTo(EditPool, MaxSegs) : Update(ProjectID, segs)
    \/ \E seg \in EditPool : AddSegment(ProjectID, seg)
    \/ \E seg \in EditPool, id \in {"a", "c"} :
         UpdateSegment(ProjectID, id, seg)
    \/ \E id \in {"a", "c"} : DeleteSegment(ProjectID, id)
    \/ \E req \in EditRequests : Export(ProjectID, req)
    \/ RunExport

ProjectSpec == InitProject /\ [][NextProject]_vars

----------------------------------------------------------------------------
\* Executor.MergeVideos called on its own with any list of inputs

\* total durations given to the call: unknown and known
MergeDurations == {0, 4}

InitMerge ==
    /\ mInputs \in SeqsUpTo({TempPath(0), TempPath(1)}, MaxSegs)
    /\ mDuration \in MergeDurations
    /\ mProgress = 0 - 1
    /\ mpc = "call"
    /\ ExportIdle
    /\ FilterIdle
    /\ DownloadIdle
    /\ RangeIdle
    /\ ParseIdle
    /\ LateIdle

\* MergeVideos lines 213-245, up to cmd.Start in Execute
MergeCall ==
    /\ mpc = "call"
    /\ \E outcome \in {"nolist", "nostart", "started"} :
         /\ MergeVideos(mInputs, MergedPath, mDuration, outcome)
         /\ mpc' = IF outcome = "started" THEN "exec" ELSE "deferred"
    /\ UNCHANGED <<projects, videos, opVars, mInputs, mDuration, mProgress,
                   filterVars, downloadVars, rangeVars, parseVars, lateVars>>
    /\ UNCHANGED <<pc, project, request, segments, branch, idx, tempFiles,
                   sepFiles, outputFiles, exportErr>>

\* parseProgress on one progress line of the merge
MergeProgress ==
    /\ mpc = "exec"
    /\ proc.running
    /\ \E t \in Times(proc.duration) :
         /\ t > proc.time
         /\ proc' = [proc EXCEPT !.time = t]
         /\ mProgress' = IF ParseLine(proc.duration, t) >= 0
                         THEN ParseLine(proc.duration, t) ELSE mProgress
    /\ UNCHANGED <<storeVars, opVars, taskVars, spawned, mInputs, mDuration,
                   mpc, filterVars, downloadVars, rangeVars, parseVars, lateVars>>

\* Execute returns to MergeVideos
MergeExit ==
    /\ mpc = "exec"
    /\ ExecuteReturns
    /\ mpc' = "deferred"
    /\ UNCHANGED <<projects, videos, opVars, spawned, mInputs, mDuration,
                   mProgress, filterVars, downloadVars, rangeVars, parseVars, lateVars>>
    /\ UNCHANGED <<pc, project, request, segments, branch, idx, tempFiles,
                   sepFiles, outputFiles, exportErr>>

\* line 226: defer os.Remove(concatFile), then MergeVideos returns
MergeDeferred ==
    /\ mpc = "deferred"
    /\ files' = AfterDeferred(files, MergedPath, ret)
    /\ mpc' = "returned"
    /\ UNCHANGED <<projects, videos, opVars, taskVars, procVars, mInputs,
                   mDuration, mProgress, filterVars, downloadVars, rangeVars, parseVars, lateVars>>

NextMerge ==
    \/ MergeCall
    \/ MergeProgress
    \/ MergeExit
    \/ MergeDeferred

MergeSpec == InitMerge /\ [][NextMerge]_vars

----------------------------------------------------------------------------
\* VideoHandler.handleRangeRequest and copyN.  A string is a sequence of
\* one-character strings.

\* maxChunkSize := int64(10 * 1024 * 1024)
MaxChunkSize == 10485760
\* buf := make([]byte, 32*1024)
BufSize == 32768

DigitChars == <<"0", "1", "2", "3", "4", "5", "6", "7", "8", "9">>
IsDigit(c) == \E i \in DOMAIN DigitChars : DigitChars[i] = c
DigitVal(c) == (CHOOSE i \in DOMAIN DigitChars : DigitChars[i] = c) - 1

\* the largest int64, 9223372036854775807, digit by digit
MaxInt64Digits == <<9, 2, 2, 3, 3, 7, 2, 0, 3, 6, 8, 5, 4, 7, 7, 5, 8, 0, 7>>

RECURSIVE StripZeros(_)
StripZeros(ds) ==
    IF Len(ds) > 1 /\ Head(ds) = 0 THEN StripZeros(Tail(ds)) ELSE ds

\* a < b or a = b for digit sequences of the same length
RECURSIVE LexLeq(_, _)
LexLeq(a, b) ==
    IF a = <<>> THEN TRUE
    ELSE IF Head(a) # Head(b) THEN Head(a) < Head(b)
    ELSE LexLeq(Tail(a), Tail(b))

RECURSIVE DigitsValue(_, _)
DigitsValue(ds, acc) ==
    IF ds = <<>> THEN acc ELSE DigitsValue(Tail(ds), acc * 10 + Head(ds))

\* strconv.ParseInt(s, 10, 64) of a string without a '-': an error for the
\* empty string, for a character that is no digit and for a value above the
\* largest int64
ParseInt(str) ==
    LET body == IF str # <<>> /\ Head(str) = "+" THEN Tail(str) ELSE str IN
      IF body = <<>> \/ \E i \in DOMAIN body : ~IsDigit(body[i])
      THEN [ok |-> FALSE, val |-> 0]
      ELSE LET ds == StripZeros([i \in DOMAIN body |-> DigitVal(body[i])]) IN
             IF \/ Len(ds) > Len(MaxInt64Digits)
                \/ Len(ds) = Len(MaxInt64Digits) /\ ~LexLeq(ds, MaxInt64Digits)
             THEN [ok |-> FALSE, val |-> 0]
             ELSE [ok |-> TRUE, val |-> DigitsValue(ds, 0)]

\* strings.Split(s, sep) for a one-character separator
RECURSIVE Split(_, _, _, _)
Split(str, sep, cur, acc) ==
    IF str = <<>> THEN Append(acc, cur)
    ELSE IF Head(str) = sep THEN Split(Tail(str), sep, <<>>, Append(acc, cur))
    ELSE Split(Tail(str), sep, Append(cur, Head(str)), acc)

BytesPrefix == <<"b", "y", "t", "e", "s", "=">>
HasPrefix(str, prefix) ==
    Len(str) >= Len(prefix) /\ SubSeq(str, 1, Len(prefix)) = prefix
TrimPrefix(str, prefix) ==
    IF HasPrefix(str, prefix) THEN SubSeq(str, Len(prefix) + 1, Len(str))
    ELSE str

\* lines 324-331: the end of an open-ended range
OpenEnd(start, fileSize) ==
    IF start + MaxChunkSize - 1 >= fileSize THEN fileSize - 1
    ELSE start + MaxChunkSize - 1

\* lines 294-332: the header is parsed to start and end, or refused
ParseRange(header, fileSize) ==
    IF ~HasPrefix(header, BytesPrefix)
    THEN [error |-> "invalid range header", start |-> 0, end |-> 0]
    ELSE
      LET parts == Split(TrimPrefix(header, BytesPrefix), "-", <<>>, <<>>) IN
        IF Len(parts) # 2
        THEN [error |-> "invalid range format", start |-> 0, end |-> 0]
        ELSE IF parts[1] # <<>> /\ ~ParseInt(parts[1]).ok
        THEN [error |-> "invalid range start", start |-> 0, end |-> 0]
        ELSE IF parts[2] # <<>> /\ ~ParseInt(parts[2]).ok
        THEN [error |-> "invalid range end", start |-> 0, end |-> 0]
        ELSE
          LET start == IF parts[1] # <<>> THEN ParseInt(parts[1]).val ELSE 0 IN
            [error |-> "", start |-> start,
             end |-> IF parts[2] # <<>> THEN ParseInt(parts[2]).val
                     ELSE OpenEnd(start, fileSize)]

\* line 335: the range is within the file
Satisfiable(start, end, fileSize) ==
    ~(start < 0 \/ start >= fileSize \/ end < start \/ end >= fileSize)

\* fmt.Sprintf("%d", n) for n >= 0
RECURSIVE Itoa(_)
Itoa(n) ==
    IF n < 10 THEN <<DigitChars[n + 1]>>
    ELSE Itoa(n \div 10) \o <<DigitChars[(n % 10) + 1]>>

\* the sizes of the files and the bounds a client sends
FileSizes == {0, 3, 2 * BufSize + 5, MaxChunkSize + 3}
RangeNumbers == {0, 1, 2, 3, 2 * BufSize + 4, MaxChunkSize + 2,
                 MaxChunkSize + 3}
\* 9223372036854775808, one above the largest int64
AboveInt64 ==
    [i \in DOMAIN MaxInt64Digits |->
        IF i = Len(MaxInt64Digits) THEN "8"
        ELSE DigitChars[MaxInt64Digits[i] + 1]]
RangeTokens ==
    {<<>>, <<"x">>, <<"0", "2">>, AboveInt64} \cup {Itoa(n) : n \in RangeNumbers}
RangeHeaders ==
    {BytesPrefix \o a \o <<"-">> \o b : a, b \in RangeTokens}
      \cup {BytesPrefix \o <<"5">>,
            BytesPrefix \o <<"-", "1", "-", "2">>,
            <<"i", "t", "e", "m", "s", "=">> \o <<"0", "-", "1">>}

\* the run of offsets off .. off + len - 1 is added to the bytes written
AppendChunk(chunks, off, len) ==
    IF len = 0 THEN chunks
    ELSE IF chunks # <<>> /\ chunks[Len(chunks)].off + chunks[Len(chunks)].len = off
    THEN [chunks EXCEPT ![Len(chunks)].len = @ + len]
    ELSE Append(chunks, [off |-> off, len |-> len])

Min(a, b) == IF a < b THEN a ELSE b

\* handleRangeRequest up to the call of copyN
HandleRangeRequest ==
    /\ rpc = "call"
    /\ LET r == ParseRange(rHeader, rSize) IN
         IF r.error # ""
         THEN /\ rResp' = [NoResponse EXCEPT !.status = 400, !.error = r.error]
              /\ rpc' = "done"
              /\ UNCHANGED <<rPos, rSeeks, rN>>
         ELSE IF ~Satisfiable(r.start, r.end, rSize)
         THEN /\ rResp' = [NoResponse EXCEPT
                              !.status = 416,
                              !.error = "range not satisfiable",
                              !.contentRange = <<"bytes */", rSize>>]
              /\ rpc' = "done"
              /\ UNCHANGED <<rPos, rSeeks, rN>>
         ELSE /\ rSeeks' = rSeeks + 1
              /\ \E seekOk \in BOOLEAN :
                   IF ~seekOk
                   THEN /\ rResp' = [NoResponse EXCEPT !.status = 500,
                                                        !.error = "seek failed"]
                        /\ rpc' = "done"
                        /\ UNCHANGED <<rPos, rN>>
                   ELSE /\ rPos' = r.start
                        /\ rResp' = [NoResponse EXCEPT
                                        !.status = 206,
                                        !.contentLength = r.end - r.start + 1,
                                        !.contentRange =
                                            <<"bytes ", r.start, "-", r.end,
                                              "/", rSize>>]
                        /\ rN' = r.end - r.start + 1
                        /\ rpc' = "copy"
    /\ UNCHANGED <<rHeader, rSize, rReads, rWritten, rChunks, rErr>>
    /\ UNCHANGED <<exportVars, filterVars, downloadVars, mergeVars, parseVars, lateVars>>

\* mutant of ToRead: the whole buffer is read each time
ToReadWholeBuffer(n, written) == BufSize

\* copyN lines 374-377: what is left of n, at most the buffer
ToRead(n, written) ==
    IF n - written > BufSize THEN BufSize ELSE n - written

\* copyN: one turn of the loop, src.Read then dst.Write
CopyStep ==
    /\ rpc = "copy"
    /\ rWritten < rN
    /\ rReads' = rReads + 1
    /\ \E readOk \in BOOLEAN :
         LET nr == IF readOk THEN Min(ToRead(rN, rWritten), rSize - rPos)
                   ELSE 0
         IN
           /\ rPos' = rPos + nr
           /\ IF nr > 0
              THEN \E nw \in {nr, nr \div 2} :
                     /\ rWritten' = rWritten + nw
                     /\ rChunks' = AppendChunk(rChunks, rPos, nw)
                     /\ IF nw < nr
                        THEN rErr' = "write" /\ rpc' = "done"
                        ELSE UNCHANGED <<rErr, rpc>>
              ELSE /\ rErr' = "read"
                   /\ rpc' = "done"
                   /\ UNCHANGED <<rWritten, rChunks>>
    /\ UNCHANGED <<rHeader, rSize, rResp, rSeeks, rN>>
    /\ UNCHANGED <<exportVars, filterVars, downloadVars, mergeVars, parseVars, lateVars>>

\* copyN: the loop is left, return written, nil
CopyReturn ==
    /\ rpc = "copy"
    /\ rWritten >= rN
    /\ rpc' = "done"
    /\ UNCHANGED <<rHeader, rSize, rResp, rPos, rSeeks, rReads, rN, rWritten,
                   rChunks, rErr>>
    /\ UNCHANGED <<exportVars, filterVars, downloadVars, mergeVars, parseVars, lateVars>>

InitRange ==
    /\ rHeader \in RangeHeaders
    /\ rSize \in FileSizes
    /\ rpc = "call"
    /\ rResp = NoResponse
    /\ rPos = 0
    /\ rSeeks = 0
    /\ rReads = 0
    /\ rN = 0
    /\ rWritten = 0
    /\ rChunks = <<>>
    /\ rErr = ""
    /\ ExportIdle
    /\ FilterIdle
    /\ DownloadIdle
    /\ MergeIdle
    /\ ParseIdle
    /\ LateIdle

NextRange ==
    \/ HandleRangeRequest
    \/ CopyStep
    \/ CopyReturn

RangeSpec == InitRange /\ [][NextRange]_vars

----------------------------------------------------------------------------
\* parseFFmpegTime.  Seconds are counted in hundredths.

AllDigits(str) == str # <<>> /\ \A i \in DOMAIN str : IsDigit(str[i])

\* strconv.Atoi with its error dropped
Atoi(str) == ParseInt(str).val

\* pattern.FindStringSubmatch(timeStr) for ^(-?)(\d+):(\d+):(\d+)\.(\d+)$
FFmpegTimeMatch(str) ==
    LET rest == IF str # <<>> /\ Head(str) = "-" THEN Tail(str) ELSE str
        parts == Split(rest, ":", <<>>, <<>>)
        last == IF Len(parts) = 3 THEN Split(parts[3], ".", <<>>, <<>>)
                ELSE <<>>
    IN  IF /\ Len(parts) = 3
           /\ Len(last) = 2
           /\ \A f \in {parts[1], parts[2], last[1], last[2]} : AllDigits(f)
        THEN <<str, IF rest = str THEN <<>> ELSE <<"-">>,
               parts[1], parts[2], last[1], last[2]>>
        ELSE <<>>

parseFFmpegTime(timeStr) ==
    LET matches == FFmpegTimeMatch(timeStr) IN
      IF Len(matches) # 6
      THEN [err |-> "invalid time format", totalSeconds |-> 0]
      ELSE
        LET hours == Atoi(matches[3])
            minutes == Atoi(matches[4])
            seconds == Atoi(matches[5])
            centiseconds == Atoi(matches[6])
            totalSeconds ==
                (hours * 3600 + minutes * 60 + seconds) * 100 + centiseconds
        IN  [err |-> "",
             totalSeconds |-> IF matches[2] = <<"-">> THEN 0 - totalSeconds
                              ELSE totalSeconds]

\* the time strings handed to the parser: fields of one, two and three digits,
\* with and without the sign, and strings of other shapes
TimeFields == [h : {<<"0", "0">>, <<"0", "1">>, <<"1">>, <<"1", "0", "0">>},
               m : {<<"0", "0">>, <<"3", "0">>},
               s : {<<"0", "5">>, <<"5">>},
               c : {<<"5", "0">>, <<"5">>, <<"5", "0", "0">>},
               sign : {<<>>, <<"-">>}]
TimeOf(f) == f.sign \o f.h \o <<":">> \o f.m \o <<":">> \o f.s \o <<".">> \o f.c
TimeStrings ==
    {TimeOf(f) : f \in TimeFields}
      \cup {<<"i", "n", "v", "a", "l", "i", "d">>, <<>>, <<"N", "/", "A">>,
            <<"0", "0", ":", "0", "0", ":", "0", "5">>,
            <<"0", "0", ":", "0", "5", ".", "5", "0">>,
            <<"0", "0", ":", "0", "0", ":", "0", "5", ".", "5", "0", "s">>,
            <<"+", "0", "0", ":", "0", "0", ":", "0", "5", ".", "5", "0">>,
            <<"0", "0", ":", "0", "0", ":", "0", "5", ".">>}

ParseTimeCall ==
    /\ tpc = "call"
    /\ tResult' = <<parseFFmpegTime(tStr)>>
    /\ tpc' = "done"
    /\ UNCHANGED <<tStr, lineVars, errorVars>>
    /\ UNCHANGED <<exportVars, filterVars, downloadVars, mergeVars, rangeVars, lateVars>>

InitTime ==
    /\ tStr \in TimeStrings
    /\ tResult = <<>>
    /\ tpc = "call"
    /\ LineIdle
    /\ ErrorIdle
    /\ ExportIdle
    /\ FilterIdle
    /\ DownloadIdle
    /\ MergeIdle
    /\ RangeIdle
    /\ LateIdle

NextTime == ParseTimeCall

TimeSpec == InitTime /\ [][NextTime]_vars

----------------------------------------------------------------------------
\* ProgressParser.ParseLine.  A line is its fields in order, each the text
\* key=value with a value without blanks (a key "" is a word without '='),
\* and whether blanks follow the last field.

Field(key, val) == [key |-> key, val |-> val]
Word == <<"x">>
SizeKeys == {"size", "Lsize"}

\* the first i at which the keys of pattern start in fields, the field after
\* the last key or a blank being there; 0 for none
FirstMatch(line, pattern) ==
    LET n == Len(pattern)
        At(i) == /\ i + n - 1 <= Len(line.fields)
                 /\ \A k \in 1..n : line.fields[i + k - 1].key \in pattern[k]
                 /\ (i + n - 1 < Len(line.fields) \/ line.trail)
        hits == {i \in 1..Len(line.fields) : At(i)}
    IN  IF hits = {} THEN 0 ELSE CHOOSE i \in hits : \A j \in hits : i <= j

\* videoPattern and audioPattern, by the keys they ask for
VideoPattern == <<{"frame"}, {"fps"}, {"q"}, SizeKeys, {"time"}>>
AudioPattern == <<SizeKeys, {"time"}>>

\* FindStringSubmatch: the whole match and the captured time, or nothing
FindStringSubmatch(pattern, line) ==
    LET i == FirstMatch(line, pattern) IN
      IF i = 0 THEN <<>>
      ELSE <<SubSeq(line.fields, i, i + Len(pattern) - 1),
             line.fields[i + Len(pattern) - 1].val>>

\* lines 26-33: the video pattern, then the audio-only pattern
LineMatches(line) ==
    IF Len(FindStringSubmatch(VideoPattern, line)) = 0
    THEN FindStringSubmatch(AudioPattern, line)
    ELSE FindStringSubmatch(VideoPattern, line)

\* ParseLine of a line of text, for a parser of p.duration seconds
ParseLineText(duration, line) ==
    LET matches == LineMatches(line) IN
      IF Len(matches) < 2 THEN 0 - 1
      ELSE IF parseFFmpegTime(matches[2]).err # "" THEN 0 - 1
      ELSE ParseLine(duration * 100, parseFFmpegTime(matches[2]).totalSeconds)

\* the lines read from ffmpeg: the two progress shapes, with size or Lsize,
\* a line that ends at the time, and lines that are no progress
LineTimes ==
    {TimeOf(f) : f \in {g \in TimeFields : /\ g.h \in {<<"0", "0">>, <<"0", "1">>}
                                            /\ g.m = <<"0", "0">>}}
      \cup {<<"N", "/", "A">>}
LinesWith(t) ==
    {[fields |-> <<Field("frame", Word), Field("fps", Word), Field("q", Word),
                   Field("size", Word), Field("time", t),
                   Field("bitrate", Word)>>, trail |-> FALSE],
     [fields |-> <<Field("frame", Word), Field("fps", Word), Field("q", Word),
                   Field("Lsize", Word), Field("time", t),
                   Field("bitrate", Word), Field("speed", Word)>>,
      trail |-> TRUE],
     [fields |-> <<Field("size", Word), Field("time", t),
                   Field("bitrate", Word), Field("speed", Word)>>,
      trail |-> FALSE],
     [fields |-> <<Field("frame", Word), Field("fps", Word), Field("q", Word),
                   Field("size", Word), Field("time", t)>>, trail |-> FALSE],
     [fields |-> <<Field("frame", Word), Field("fps", Word),
                   Field("time", t), Field("bitrate", Word)>>,
      trail |-> FALSE],
     [fields |-> <<Field("", Word), Field("", Word)>>, trail |-> FALSE]}
Lines == UNION {LinesWith(t) : t \in LineTimes}
LineDurations == {0 - 5, 0, 5, 10, 100}

ParseLineCall ==
    /\ lpc = "call"
    /\ lResult' = ParseLineText(lDuration, lLine)
    /\ lpc' = "done"
    /\ UNCHANGED <<lDuration, lLine, timeVars, errorVars>>
    /\ UNCHANGED <<exportVars, filterVars, downloadVars, mergeVars, rangeVars, lateVars>>

InitLine ==
    /\ lDuration \in LineDurations
    /\ lLine \in Lines
    /\ lResult = 0
    /\ lpc = "call"
    /\ TimeIdle
    /\ ErrorIdle
    /\ ExportIdle
    /\ FilterIdle
    /\ DownloadIdle
    /\ MergeIdle
    /\ RangeIdle
    /\ LateIdle

NextLine == ParseLineCall

LineSpec == InitLine /\ [][NextLine]_vars

----------------------------------------------------------------------------
\* ParseFFmpegError

\* unicode.IsSpace for the characters used here
IsSpace(c) == c \in {" ", "\t", "\r", "\n"}

\* strings.TrimSpace
RECURSIVE TrimLeft(_)
TrimLeft(str) ==
    IF str # <<>> /\ IsSpace(Head(str)) THEN TrimLeft(Tail(str)) ELSE str
RECURSIVE TrimRight(_)
TrimRight(str) ==
    IF str # <<>> /\ IsSpace(str[Len(str)])
    THEN TrimRight(SubSeq(str, 1, Len(str) - 1)) ELSE str
TrimSpace(str) == TrimRight(TrimLeft(str))

\* strings.Contains
Contains(str, substr) ==
    \E i \in 1..(Len(str) - Len(substr) + 1) :
        SubSeq(str, i, i + Len(substr) - 1) = substr

\* mutant of HasIndicator: only the lower-case word is looked for
HasIndicatorLowerOnly(line) == Contains(line, <<"e", "r", "r", "o", "r">>)

\* lines 97-101: the error indicators
HasIndicator(line) ==
    \/ Contains(line, <<"e", "r", "r", "o", "r">>)
    \/ Contains(line, <<"E", "r", "r", "o", "r">>)
    \/ Contains(line, <<"I", "n", "v", "a", "l", "i", "d">>)
    \/ Contains(line, <<"f", "a", "i", "l", "e", "d">>)
    \/ Contains(line, <<"N", "o", " ", "s", "u", "c", "h">>)

UnknownError == <<"Unknown FFmpeg error">>

\* lines 93-103: from the last line back, the first line with an indicator
RECURSIVE FirstLoop(_, _)
FirstLoop(lines, i) ==
    IF i < 1 THEN <<>>
    ELSE IF HasIndicator(TrimSpace(lines[i])) THEN <<TrimSpace(lines[i])>>
    ELSE FirstLoop(lines, i - 1)

\* lines 106-111: from the last line back, the first line that is not empty
RECURSIVE SecondLoop(_, _)
SecondLoop(lines, i) ==
    IF i < 1 THEN <<>>
    ELSE IF TrimSpace(lines[i]) # <<>> THEN <<TrimSpace(lines[i])>>
    ELSE SecondLoop(lines, i - 1)

ParseFFmpegError(stderr) ==
    LET lines == Split(stderr, "\n", <<>>, <<>>) IN
      IF FirstLoop(lines, Len(lines)) # <<>>
      THEN FirstLoop(lines, Len(lines))[1]
      ELSE IF SecondLoop(lines, Len(lines)) # <<>>
      THEN SecondLoop(lines, Len(lines))[1]
      ELSE UnknownError

\* the lines of the diagnostic texts, and the texts: one to three lines
LineNoSuch == <<" ", "a", ":", " ", "N", "o", " ", "s", "u", "c", "h", " ", "f", "i", "l", "e", " ">>
LinePlain == <<"o", "k">>
StderrLines ==
    {<<>>, <<" ", " ">>, LinePlain, LineNoSuch,
     <<"E", "r", "r", "o", "r", " ", "x">>,
     <<"t", "e", "r", "r", "o", "r">>,
     <<"E", "R", "R", "O", "R">>,
     <<"I", "n", "v", "a", "l", "i", "d", " ", "d", "a", "t", "a", "\r">>,
     <<"\t", "x", " ", "f", "a", "i", "l", "e", "d">>}
Join(lines) ==
    IF Len(lines) = 1 THEN lines[1]
    ELSE IF Len(lines) = 2 THEN lines[1] \o <<"\n">> \o lines[2]
    ELSE lines[1] \o <<"\n">> \o lines[2] \o <<"\n">> \o lines[3]
Stderrs ==
    {Join(ls) : ls \in {<<l>> : l \in StderrLines}
                         \cup (StderrLines \X StderrLines)
                         \cup (StderrLines \X StderrLines \X StderrLines)}

ParseErrorCall ==
    /\ epc = "call"
    /\ eResult' = ParseFFmpegError(eStderr)
    /\ epc' = "done"
    /\ UNCHANGED <<eStderr, timeVars, lineVars>>
    /\ UNCHANGED <<exportVars, filterVars, downloadVars, mergeVars, rangeVars, lateVars>>

InitError ==
    /\ eStderr \in Stderrs
    /\ eResult = <<>>
    /\ epc = "call"
    /\ TimeIdle
    /\ LineIdle
    /\ ExportIdle
    /\ FilterIdle
    /\ DownloadIdle
    /\ MergeIdle
    /\ RangeIdle
    /\ LateIdle

NextError == ParseErrorCall

ErrorSpec == InitError /\ [][NextError]_vars

----------------------------------------------------------------------------
\* Executor.SmartCut and canDoLosslessCut.  Times are in hundredths of a
\* second; a line of ffprobe is its comma-separated parts, the time a number
\* or a text that strconv.ParseFloat refuses.

\* tolerance := 0.1
Tolerance == 10

Abs(x) == IF x < 0 THEN 0 - x ELSE x

\* a part that is a number, and one that is not
Num(n) == [num |-> n]
NotNum == [text |-> "N/A"]
\* strconv.ParseFloat(timeStr, 64)
ParseFloat(part) ==
    IF "num" \in DOMAIN part THEN [ok |-> TRUE, val |-> part.num]
    ELSE [ok |-> FALSE, val |-> 0]

\* lines 382-401: the times of the lines whose second part is "1"
RECURSIVE Keyframes(_)
Keyframes(lines) ==
    IF lines = <<>> THEN <<>>
    ELSE LET line == Head(lines) IN
           IF Len(line) >= 2 /\ line[2] = "1" /\ ParseFloat(line[1]).ok
           THEN <<ParseFloat(line[1]).val>> \o Keyframes(Tail(lines))
           ELSE Keyframes(Tail(lines))

\* mutant of canDoLosslessCut: one aligned boundary is enough
canDoLosslessCutEither(output, start, end) ==
    IF output.err # <<>>
    THEN [ok |-> FALSE, err |-> <<"failed to get keyframe info">>]
    ELSE LET keyframes == Keyframes(output.lines) IN
           [ok |-> \/ \E i \in DOMAIN keyframes :
                         Abs(keyframes[i] - start) <= Tolerance
                   \/ \E i \in DOMAIN keyframes :
                         Abs(keyframes[i] - end) <= Tolerance,
            err |-> <<>>]

canDoLosslessCut(output, start, end) ==
    IF output.err # <<>>
    THEN [ok |-> FALSE, err |-> <<"failed to get keyframe info">>]
    ELSE LET keyframes == Keyframes(output.lines) IN
           [ok |-> /\ \E i \in DOMAIN keyframes :
                         Abs(keyframes[i] - start) <= Tolerance
                   /\ \E i \in DOMAIN keyframes :
                         Abs(keyframes[i] - end) <= Tolerance,
            err |-> <<>>]

\* SmartCut up to the call of CutVideo or performSmartCut
SmartCutCall ==
    /\ kpc = "call"
    /\ LET r == canDoLosslessCut(kOutput, kStart, kEnd)
           canLossless == IF r.err # <<>> THEN FALSE ELSE r.ok
       IN  kPath' = IF canLossless THEN "CutVideo" ELSE "performSmartCut"
    /\ kpc' = "cut"
    /\ UNCHANGED <<kOutput, kStart, kEnd, kRet>>
    /\ UNCHANGED <<earlyVars, exceptSmart>>

\* the cut returns, and SmartCut returns its error
SmartCutReturn ==
    /\ kpc = "cut"
    /\ \E e \in {<<>>, <<"ffmpeg failed">>} : kRet' = e
    /\ kpc' = "done"
    /\ UNCHANGED <<kOutput, kStart, kEnd, kPath>>
    /\ UNCHANGED <<earlyVars, exceptSmart>>

\* what ffprobe prints for a video with keyframes at 0, 2, 4 and 6 s
Probed(lines) == [err |-> <<>>, lines |-> lines]
ProbeOutputs ==
    {[err |-> <<"exit status 1">>, lines |-> <<>>],
     Probed(<<>>),
     Probed(<<<<Num(0), "1">>, <<Num(100), "0">>, <<Num(200), "1">>, <<>>, <<Num(300), "0">>,
              <<Num(400), "1">>, <<Num(500), "0">>, <<Num(600), "1">>>>),
     Probed(<<<<Num(0), "1">>, <<NotNum, "1">>, <<Num(205), "0">>, <<Num(400)>>,
              <<Num(600), "1", "x">>>>),
     Probed(<<<<Num(200), "1">>>>)}
CutStarts == {190, 189, 205, 210, 211, 250}
CutEnds == {200, 589, 590, 595, 610, 611}

InitSmart ==
    /\ kOutput \in ProbeOutputs
    /\ kStart \in CutStarts
    /\ kEnd \in CutEnds
    /\ kPath = ""
    /\ kRet = <<>>
    /\ kpc = "call"
    /\ EarlyIdle
    /\ IdleExceptSmart

NextSmart ==
    \/ SmartCutCall
    \/ SmartCutReturn

SmartSpec == InitSmart /\ [][NextSmart]_vars

----------------------------------------------------------------------------
\* Requests served at the same time: each runs in its own goroutine and
\* touches s.operations once, Export with an insert (line 48) and GetStatus
\* with a lookup (line 371).  OperationService has no lock, so an access is
\* entered without waiting.  A map access that overlaps an insert is a data
\* race: the runtime may stop the program, and a lookup may see either state.

Handlers == {"h1", "h2", "h3"}
OpOf(g) == <<"op", g>>
Inside == {g \in Handlers : gpc[g] = "access"}
IsInsert(g) == gKind[g] = "Export"
\* the operationID every GetStatus asks for
Wanted == OpOf("h1")

\* the goroutine starts its map access
RegistryEnter(g) ==
    /\ ~gFatal
    /\ gpc[g] = "call"
    /\ gpc' = [gpc EXCEPT ![g] = "access"]
    /\ gRaced' = [h \in Handlers |->
                    IF h = g THEN \E o \in Inside : IsInsert(o) \/ IsInsert(g)
                    ELSE gRaced[h] \/ (h \in Inside /\ (IsInsert(g) \/ IsInsert(h)))]
    /\ UNCHANGED <<gKind, gSeen, regOps, gFatal>>
    /\ UNCHANGED <<earlyVars, exceptRegistry>>

\* the map access ends: the insert is done, or the lookup has its answer
RegistryLeave(g) ==
    /\ ~gFatal
    /\ gpc[g] = "access"
    /\ \/ /\ gRaced[g]
          /\ gFatal' = TRUE
          /\ UNCHANGED <<gpc, gSeen, regOps>>
       \/ /\ gpc' = [gpc EXCEPT ![g] = "done"]
          /\ IF IsInsert(g)
             THEN regOps' = regOps \cup {OpOf(g)} /\ UNCHANGED gSeen
             ELSE /\ \E found \in BOOLEAN :
                       /\ ~gRaced[g] => (found <=> Wanted \in regOps)
                       /\ gSeen' = [gSeen EXCEPT ![g] =
                                       IF found THEN "found" ELSE "not found"]
                  /\ UNCHANGED regOps
          /\ UNCHANGED gFatal
    /\ UNCHANGED <<gKind, gRaced>>
    /\ UNCHANGED <<earlyVars, exceptRegistry>>

InitRegistry ==
    /\ gKind \in [Handlers -> {"Export", "GetStatus"}]
    /\ gpc = [g \in Handlers |-> "call"]
    /\ gRaced = [g \in Handlers |-> FALSE]
    /\ gSeen = [g \in Handlers |-> ""]
    /\ regOps = {}
    /\ gFatal = FALSE
    /\ EarlyIdle
    /\ IdleExceptRegistry

NextRegistry ==
    \E g \in Handlers :
       \/ RegistryEnter(g)
       \/ RegistryLeave(g)

RegistrySpec == InitRegistry /\ [][NextRegistry]_vars

----------------------------------------------------------------------------
\* Executor.Execute after cmd.Start: the external process writes lines to the
\* stderr pipe and exits, the goroutine started at line 100 reads them in
\* parseProgress, and Execute calls cmd.Wait (line 106) and then waits for
\* progressDone (line 109).  cmd.Wait closes the read end of a pipe obtained
\* from cmd.StderrPipe once the process has exited; a read after that fails,
\* whatever is still in the pipe.

\* the number of lines a process writes
StderrLineCounts == {0, 1, 2, 3}

\* the process writes a line
ProcWrites ==
    /\ xProc = "running"
    /\ xWritten < xPlanned
    /\ xWritten' = xWritten + 1
    /\ UNCHANGED <<xPlanned, xExitOk, xRead, xProc, xPipeClosed, xReader, xMain,
                   xCallbacks, xLate, xResult>>
    /\ UNCHANGED <<earlyVars, exceptExec>>

\* the process exits
ProcExits ==
    /\ xProc = "running"
    /\ xWritten = xPlanned
    /\ xProc' = "exited"
    /\ UNCHANGED <<xPlanned, xExitOk, xWritten, xRead, xPipeClosed, xReader,
                   xMain, xCallbacks, xLate, xResult>>
    /\ UNCHANGED <<earlyVars, exceptExec>>

\* parseProgress lines 133-141: scanner.Scan gives a line, onProgress is called
ReaderReads ==
    /\ xReader = "reading"
    /\ ~xPipeClosed
    /\ xRead < xWritten
    /\ xRead' = xRead + 1
    /\ xCallbacks' = xCallbacks + 1
    /\ xLate' = (xLate \/ xMain = "returned")
    /\ UNCHANGED <<xPlanned, xExitOk, xWritten, xProc, xPipeClosed, xReader,
                   xMain, xResult>>
    /\ UNCHANGED <<earlyVars, exceptExec>>

\* parseProgress lines 133, 144-146 and the deferred close(progressDone):
\* scanner.Scan ends at the end of the stream or at a read error
ReaderEnds ==
    /\ xReader = "reading"
    /\ \/ xPipeClosed
       \/ xProc = "exited" /\ xRead = xWritten
    /\ xReader' = "done"
    /\ UNCHANGED <<xPlanned, xExitOk, xWritten, xRead, xProc, xPipeClosed,
                   xMain, xCallbacks, xLate, xResult>>
    /\ UNCHANGED <<earlyVars, exceptExec>>

\* line 106: cmd.Wait returns when the process has exited
WaitMayReturn(procState) == procState = "exited"

\* line 106: err = cmd.Wait()
MainWaits ==
    /\ xMain = "wait"
    /\ WaitMayReturn(xProc)
    /\ xPipeClosed' = TRUE
    /\ xMain' = "join"
    /\ UNCHANGED <<xPlanned, xExitOk, xWritten, xRead, xProc, xReader,
                   xCallbacks, xLate, xResult>>
    /\ UNCHANGED <<earlyVars, exceptExec>>

\* lines 109-125: <-progressDone, then the result from err and stderrBuf
MainReturns ==
    /\ xMain = "join"
    /\ xReader = "done"
    /\ xMain' = "returned"
    /\ xResult' = <<[failed |-> ~xExitOk,
                     stderr |-> IF xExitOk THEN 0 ELSE xRead]>>
    /\ UNCHANGED <<xPlanned, xExitOk, xWritten, xRead, xProc, xPipeClosed,
                   xReader, xCallbacks, xLate>>
    /\ UNCHANGED <<earlyVars, exceptExec>>

InitExec ==
    /\ xPlanned \in StderrLineCounts
    /\ xExitOk \in BOOLEAN
    /\ xWritten = 0
    /\ xRead = 0
    /\ xProc = "running"
    /\ xPipeClosed = FALSE
    /\ xReader = "reading"
    /\ xMain = "wait"
    /\ xCallbacks = 0
    /\ xLate = FALSE
    /\ xResult = <<>>
    /\ EarlyIdle
    /\ IdleExceptExec

NextExec ==
    \/ ProcWrites
    \/ ProcExits
    \/ ReaderReads
    \/ ReaderEnds
    \/ MainWaits
    \/ MainReturns

ExecSpec == InitExec /\ [][NextExec]_vars

----------------------------------------------------------------------------
\* Manager.GetNextVideoNumber called by StartDownload requests served at the
\* same time.  The function takes no lock; os.WriteFile truncates the file
\* and then writes it.

Callers == {"d1", "d2", "d3"}

\* lines 114-120: the counter read from the file, 1 when it cannot be read
\* or parsed
EmptyContent == [empty |-> TRUE]

NumberContent(n) == [number |-> n]

CurrentNum(file) ==
    IF file = <<>> \/ file[1] = EmptyContent THEN 1 ELSE file[1].number

\* line 114: os.ReadFile and strconv.Atoi
NumberRead(g) ==
    /\ npc[g] = "call"
    /\ nCurrent' = [nCurrent EXCEPT ![g] = CurrentNum(nFile)]
    /\ npc' = [npc EXCEPT ![g] = "truncate"]
    /\ UNCHANGED <<nFile, nGot>>
    /\ UNCHANGED <<earlyVars, exceptNumber>>

\* line 124: os.WriteFile opens the file, which empties it
NumberTruncate(g) ==
    /\ npc[g] = "truncate"
    /\ nFile' = <<EmptyContent>>
    /\ npc' = [npc EXCEPT ![g] = "write"]
    /\ UNCHANGED <<nCurrent, nGot>>
    /\ UNCHANGED <<earlyVars, exceptNumber>>

\* line 124: os.WriteFile writes nextNum; line 127: return currentNum
NumberWrite(g) ==
    /\ npc[g] = "write"
    /\ nFile' = <<NumberContent(nCurrent[g] + 1)>>
    /\ nGot' = [nGot EXCEPT ![g] = nCurrent[g]]
    /\ npc' = [npc EXCEPT ![g] = "done"]
    /\ UNCHANGED nCurrent
    /\ UNCHANGED <<earlyVars, exceptNumber>>

InitNumber ==
    /\ nFile \in {<<>>, <<NumberContent(5)>>}
    /\ nCurrent = [g \in Callers |-> 0]
    /\ npc = [g \in Callers |-> "call"]
    /\ nGot = [g \in Callers |-> 0]
    /\ EarlyIdle
    /\ IdleExceptNumber

NextNumber ==
    \E g \in Callers :
       \/ NumberRead(g)
       \/ NumberTruncate(g)
       \/ NumberWrite(g)

NumberSpec == InitNumber /\ [][NextNumber]_vars

----------------------------------------------------------------------------
\* ProjectService.AddSegment, UpdateSegment and DeleteSegment called on one
\* project by requests served at the same time.  Each call gets the project
\* from its file, changes its own copy and saves it; ProjectService has no
\* lock.

Editors == {"e1", "e2"}

AddOf(seg) == [kind |-> "add", id |-> seg.ID, seg |-> seg]
UpdateOf(id, seg) == [kind |-> "update", id |-> id, seg |-> seg]
DeleteOf(id) == [kind |-> "delete", id |-> id, seg |-> SegA]

Mutations ==
    {AddOf(seg) : seg \in SegmentPool}
      \cup {UpdateOf("a", SegA2)}
      \cup {DeleteOf(id) : id \in {"a", "b"}}

\* UpdateSegment, lines 143-145: no segment has the id
NotFound(segs, m) == m.kind = "update" /\ FirstWithID(segs, m.id) = 0

\* the change a call makes to the Segments of its copy of the project
Mutated(segs, m) ==
    CASE m.kind = "add" -> Append(segs, m.seg)
      [] m.kind = "update" ->
           [segs EXCEPT ![FirstWithID(segs, m.id)] = [m.seg EXCEPT !.ID = m.id]]
      [] m.kind = "delete" -> SelectSeq(segs, LAMBDA seg : seg.ID # m.id)

\* ProjectService.Get: the file is read and parsed; a file that is being
\* rewritten does not parse
EditGet(e) ==
    /\ spc[e] = "call"
    /\ IF sTruncated
       THEN /\ spc' = [spc EXCEPT ![e] = "failed"]
            /\ UNCHANGED sLoaded
       ELSE /\ sLoaded' = [sLoaded EXCEPT ![e] = sStored]
            /\ spc' = [spc EXCEPT ![e] =
                         IF NotFound(sStored, sMutation[e]) THEN "failed"
                         ELSE "save"]
    /\ UNCHANGED <<sInitial, sStored, sTruncated, sMutation>>
    /\ UNCHANGED <<earlyVars, exceptEdit>>

\* ProjectService.Save, line 98: os.WriteFile opens the file, which empties it
EditTruncate(e) ==
    /\ spc[e] = "save"
    /\ sTruncated' = TRUE
    /\ spc' = [spc EXCEPT ![e] = "write"]
    /\ UNCHANGED <<sInitial, sStored, sMutation, sLoaded>>
    /\ UNCHANGED <<earlyVars, exceptEdit>>

\* ProjectService.Save, line 98: the whole record is written; the call
\* returns nil
EditWrite(e) ==
    /\ spc[e] = "write"
    /\ sStored' = Mutated(sLoaded[e], sMutation[e])
    /\ sTruncated' = FALSE
    /\ spc' = [spc EXCEPT ![e] = "ok"]
    /\ UNCHANGED <<sInitial, sMutation, sLoaded>>
    /\ UNCHANGED <<earlyVars, exceptEdit>>

InitEdit ==
    /\ sInitial \in {<<>>, <<SegA>>, <<SegA, SegB>>}
    /\ sStored = sInitial
    /\ sTruncated = FALSE
    /\ sMutation \in [Editors -> Mutations]
    /\ sLoaded = [e \in Editors |-> <<>>]
    /\ spc = [e \in Editors |-> "call"]
    /\ EarlyIdle
    /\ IdleExceptEdit

NextEdit ==
    \E e \in Editors :
       \/ EditGet(e)
       \/ EditTruncate(e)
       \/ EditWrite(e)

EditSpec == InitEdit /\ [][NextEdit]_vars

----------------------------------------------------------------------------
\* SystemHandler: SessionStart, SessionHeartbeat, SessionEnd and
\* sessionCleanupLoop.  The registry is changed under sessLock, so each
\* locked section is one step; ClearEverything runs outside the lock, in a
\* goroutine of its own (the loop) or after the Unlock (SessionEnd).

\* the period of the ticker of sessionCleanupLoop, in seconds
TickerPeriod == 30
\* a session not seen for longer than 2*time.Minute is expired
SessionTimeout == 2 * 60
\* the clock stops here
MaxClock == 180
\* ClearEverything calls that may be decided on and not finished
MaxTasks == 2

SessionIDs == {"s1", "s2"}

Session(lastSeen, autoClean) == [LastSeen |-> lastSeen, AutoClean |-> autoClean]

\* delete(h.sessions, id)
Without(sessions, id) == [i \in DOMAIN sessions \ {id} |-> sessions[i]]

\* time passes
Tick ==
    /\ hNow + TickerPeriod <= MaxClock
    /\ hNow' = hNow + TickerPeriod
    /\ UNCHANGED <<hSessions, hPending, hClearing>>
    /\ UNCHANGED <<earlyVars, exceptSession>>

\* SessionStart, lines 114-120
SessionStart(id, autoClean) ==
    /\ hSessions' = (id :> Session(hNow, autoClean)) @@ hSessions
    /\ hSessions' # hSessions
    /\ UNCHANGED <<hNow, hPending, hClearing>>
    /\ UNCHANGED <<earlyVars, exceptSession>>

\* SessionHeartbeat, lines 145-149
SessionHeartbeat(id) ==
    /\ id \in DOMAIN hSessions
    /\ hSessions' = [hSessions EXCEPT ![id].LastSeen = hNow]
    /\ hSessions' # hSessions
    /\ UNCHANGED <<hNow, hPending, hClearing>>
    /\ UNCHANGED <<earlyVars, exceptSession>>

\* SessionEnd, line 174: the cleanup is decided on with the count taken
\* under the lock
EndCleans(sessions, id, cleanup) ==
    /\ id \in DOMAIN sessions
    /\ cleanup \/ sessions[id].AutoClean
    /\ DOMAIN sessions = {id}

\* SessionEnd, lines 166-174: the locked section and the decision; the
\* ClearEverything call itself follows after the Unlock
SessionEnd(id, cleanup) ==
    /\ id \in DOMAIN hSessions
    /\ hSessions' = Without(hSessions, id)
    /\ IF EndCleans(hSessions, id, cleanup)
       THEN /\ hPending + hClearing < MaxTasks
            /\ hPending' = hPending + 1
       ELSE UNCHANGED hPending
    /\ UNCHANGED <<hNow, hClearing>>
    /\ UNCHANGED <<earlyVars, exceptSession>>

\* sessionCleanupLoop, line 53
Expired(sessions) ==
    {id \in DOMAIN sessions :
       sessions[id].AutoClean /\ hNow - sessions[id].LastSeen > SessionTimeout}

\* sessionCleanupLoop, lines 49-72: one pass over the registry under the
\* lock; the goroutine of line 62 is started when a removal empties it
CleanupPass ==
    /\ Expired(hSessions) # {}
    /\ hSessions' = [i \in DOMAIN hSessions \ Expired(hSessions) |-> hSessions[i]]
    /\ IF DOMAIN hSessions' = {}
       THEN /\ hPending + hClearing < MaxTasks
            /\ hPending' = hPending + 1
       ELSE UNCHANGED hPending
    /\ UNCHANGED <<hNow, hClearing>>
    /\ UNCHANGED <<earlyVars, exceptSession>>

\* Storage.ClearEverything begins (system.go lines 63 and 179)
ClearBegins ==
    /\ hPending > 0
    /\ hPending' = hPending - 1
    /\ hClearing' = hClearing + 1
    /\ UNCHANGED <<hSessions, hNow>>
    /\ UNCHANGED <<earlyVars, exceptSession>>

\* Storage.ClearEverything returns
ClearEnds ==
    /\ hClearing > 0
    /\ hClearing' = hClearing - 1
    /\ UNCHANGED <<hSessions, hNow, hPending>>
    /\ UNCHANGED <<earlyVars, exceptSession>>

InitSession ==
    /\ hSessions = <<>>
    /\ hNow = 0
    /\ hPending = 0
    /\ hClearing = 0
    /\ EarlyIdle
    /\ IdleExceptSession

NextSession ==
    \/ Tick
    \/ \E id \in SessionIDs, autoClean \in BOOLEAN : SessionStart(id, autoClean)
    \/ \E id \in SessionIDs : SessionHeartbeat(id)
    \/ \E id \in SessionIDs, cleanup \in BOOLEAN : SessionEnd(id, cleanup)
    \/ CleanupPass
    \/ ClearBegins
    \/ ClearEnds

SessionSpec == InitSession /\ [][NextSession]_vars

----------------------------------------------------------------------------
\* Properties

Exists == OperationID \in DOMAIN operations
Op == operations[OperationID]
Terminal == {"completed", "failed"}
StatusSteps == {<<"pending", "processing">>, <<"processing", "completed">>,
                <<"processing", "failed">>}

IsSuffix(a, b) ==
    /\ Len(a) <= Len(b)
    /\ SubSeq(b, Len(b) - Len(a) + 1, Len(b)) = a

TempFilesOnDisk == {f \in files : f[1] = "temp"}
ListFiles == {ConcatFile(MergedPath), ConcatFile(SinglePath)}

\* C1: the status of an Operation moves only pending -> processing ->
\* completed or failed, and from the moment its status is completed or
\* failed no field of the record changes any more.
C1_TerminalRecordSticky ==
    [][(Exists /\ Exists') =>
         /\ (Op.Status # Op'.Status => <<Op.Status, Op'.Status>> \in StatusSteps)
         /\ (Op.Status \in Terminal => Op' = Op)]_vars

\* C2: while the Operation is processing, no update makes its progress
\* smaller than it was.
C2_ProgressMonotonic ==
    [][(Exists /\ Exists' /\ Op.Status = "processing"
          /\ Op'.Status = "processing")
         => Op'.Progress >= Op.Progress]_vars

\* C3: every record a GetStatus call returns has output files only when
\* completed, an error only when failed, and when completed has progress 100,
\* a completion time and the outputs in the order they were produced.
C3_ObservedRecordConsistent ==
    observed # <<>> =>
      LET o == observed[1] IN
        /\ (o.OutputFiles # <<>> => o.Status = "completed")
        /\ (o.Error # Nil => o.Status = "failed")
        /\ (o.Status = "completed" =>
              /\ o.Progress = 100
              /\ o.CompletedAt
              /\ o.OutputFiles = outputFiles)

\* C4: the status of a Download moves only pending -> downloading ->
\* completed, failed or cancelled, and once it is one of these three no step
\* of the background task and no CancelDownload call changes it.
DownloadTerminal == {"completed", "failed", "cancelled"}
DownloadSteps == {<<"", "pending">>, <<"pending", "downloading">>} \cup
                 {<<"downloading", t>> : t \in DownloadTerminal}
C4_DownloadStatusSticky ==
    [][/\ (download.Status # download'.Status =>
             <<download.Status, download'.Status>> \in DownloadSteps)
       /\ (download.Status \in DownloadTerminal =>
             download'.Status = download.Status)]_vars

\* C5 (as claimed): when the project or its media file is missing the export
\* is refused at dispatch: no Operation, no background task, no process.
MediaMissing ==
    \/ ProjectID \notin DOMAIN projects
    \/ projects[ProjectID].VideoID \notin videos
C5_MissingMediaRefusedAtDispatch ==
    MediaMissing =>
      /\ operations = <<>>
      /\ pc = "idle"
      /\ spawned = <<>>
      /\ (response # Nil => response[1] = "404")

\* C5 (amended): a missing project is refused at dispatch with no Operation,
\* no task and no process; a missing media file is accepted, the Operation is
\* created and its task ends it in failed without spawning a process.
C5_MissingProjectRefusedMissingMediaFailsLater ==
    /\ (ProjectID \notin DOMAIN projects =>
          /\ operations = <<>>
          /\ pc = "idle"
          /\ spawned = <<>>
          /\ (response # Nil => response[1] = "404"))
    /\ ((ProjectID \in DOMAIN projects /\ projects[ProjectID].VideoID \notin videos) =>
          /\ spawned = <<>>
          /\ (response # Nil => response[1] = "202" /\ Exists /\ pc # "idle")
          /\ (pc = "done" => Op.Status = "failed"
                             /\ Head(Op.Error) = "video not found: "))
C5_Witness ==
    /\ ProjectID \in DOMAIN projects
    /\ projects[ProjectID].VideoID \notin videos
    /\ response # Nil
    /\ pc = "done"
    /\ Op.Status = "failed"

\* C6: when runExport cannot resolve the video, the Operation goes from
\* processing straight to failed, its error begins with "video not found",
\* and no cut or merge process is spawned.
C6_VideoNotFoundFails ==
    /\ []((Exists /\ project.VideoID \notin videos) =>
            /\ spawned = <<>>
            /\ ~proc.running
            /\ Op.Status \in {"pending", "processing", "failed"}
            /\ (pc = "done" =>
                  /\ Op.Status = "failed"
                  /\ Len(Op.Error) >= 1
                  /\ Head(Op.Error) = "video not found: "))
    /\ [][(Exists /\ Exists' /\ project.VideoID \notin videos
             /\ Op.Status = "processing" /\ Op'.Status # "processing")
            => Op'.Status = "failed"]_vars
C6_Witness ==
    /\ Exists
    /\ project.VideoID \notin videos
    /\ pc = "done"
    /\ Op.Status = "failed"
    /\ Head(Op.Error) = "video not found: "

\* C7: when the video is found and the effective segment list is empty (the
\* project has no segments, or no requested id names one of them), the
\* Operation ends in failed with "no segments to export" and no process is
\* spawned.
NothingSelected ==
    \/ project.Segments = <<>>
    \/ /\ request.SegmentIDs # <<>>
       /\ \A i \in DOMAIN project.Segments :
            project.Segments[i].ID \notin Range(request.SegmentIDs)
C7_NoSegmentsFails ==
    (Exists /\ project.VideoID \in videos /\ NothingSelected) =>
      /\ spawned = <<>>
      /\ ~proc.running
      /\ files = {}
      /\ pc \in {"start", "getVideo", "segments", "setErrorNoSegments", "done"}
      /\ Op.Status \in {"pending", "processing", "failed"}
      /\ (pc \in {"setErrorNoSegments", "done"} =>
            segments = <<>> /\ Op.Status = "failed")
      /\ (pc = "done" => Op.Error = <<"no segments to export">>)
C7_Witness ==
    /\ Exists
    /\ project.VideoID \in videos
    /\ project.Segments # <<>>
    /\ request.SegmentIDs # <<>>
    /\ NothingSelected
    /\ pc = "done"
    /\ Op.Error = <<"no segments to export">>

\* C8: the effective segment list is the sub-sequence of the project's
\* segments whose id is requested, in project order, each project segment at
\* most once; with no requested id it is the whole list.
RequestedSubSeq(segs, ids) ==
    IF ids = <<>> THEN segs
    ELSE SelectSeq(segs, LAMBDA seg : \E j \in DOMAIN ids : ids[j] = seg.ID)
C8_EffectiveSegmentsInProjectOrder ==
    fDone => fResult = RequestedSubSeq(fProject, fIds)
C8_Witness ==
    /\ fDone
    /\ fProject = <<SegA, SegB>>
    /\ fIds = <<"b", "a">>
    /\ fResult = <<SegA, SegB>>

\* C9: once an export step has returned an error no further process is
\* spawned and no further file is written, the Operation ends in failed with
\* that error in its message, and the outputs written before are still on disk.
C9_FailureAbortsAndKeepsOutputs ==
    /\ [][exportErr # Nil =>
            /\ spawned' = spawned
            /\ files' = files
            /\ exportErr' = exportErr
            /\ ~proc'.running]_vars
    /\ [][\A f \in files : (f[1] = "outputs" /\ f \notin ListFiles) => f \in files']_vars
    /\ []((project.VideoID \in videos /\ ret # Nil /\ pc \in {"finish", "setErrorExport", "done"})
            => exportErr # Nil /\ IsSuffix(ret, exportErr))
    /\ []((pc = "done" /\ exportErr # Nil) =>
            /\ Op.Status = "failed"
            /\ Op.Error = exportErr
            /\ Op.OutputFiles = <<>>
            /\ Range(outputFiles) \subseteq files)
C9_Witness ==
    /\ pc = "done"
    /\ request.MergeSegments
    /\ request.ExportSeparate
    /\ Op.Status = "failed"
    /\ ret # Nil
    /\ IsSuffix(ret, Op.Error)
    /\ outputFiles = <<MergedPath>>
    /\ MergedPath \in files
    /\ SegmentPath(1) \in files

\* C10 (as claimed): N > 1 segments with merge requested and a completed
\* Operation: exactly one output file, and no fragment left in temp/.
C10_MergeGivesOneOutput ==
    (Exists /\ pc = "done" /\ Op.Status = "completed" /\ Len(segments) > 1
       /\ request.MergeSegments) =>
      /\ Len(Op.OutputFiles) = 1
      /\ Range(tempFiles) \cap files = {}

\* C10 (amended): N > 1 segments with merge requested and a completed
\* Operation: exactly one merged output file, first in the list, followed by
\* the N per-segment files when export-separate is set and by the chapters
\* file when export-chapters is set (so it is the only output when neither is
\* set), and no fragment left in temp/.
C10_MergeGivesOneMergedOutput ==
    (Exists /\ Op.Status = "completed" /\ Len(segments) > 1
       /\ request.MergeSegments) =>
      /\ Len(tempFiles) = Len(segments)
      /\ Range(tempFiles) \cap files = {}
      /\ TempFilesOnDisk = {}
      /\ outputFiles[1] = MergedPath
      /\ \A i \in 2..Len(outputFiles) : outputFiles[i] # MergedPath
      /\ MergedPath \in files
      /\ Len(outputFiles) = 1 + (IF request.ExportSeparate THEN Len(segments) ELSE 0)
                              + (IF request.ExportChapters THEN 1 ELSE 0)
      /\ (pc = "done" => Op.OutputFiles = outputFiles)
C10_Witness ==
    /\ Exists
    /\ pc = "done"
    /\ Op.Status = "completed"
    /\ Len(segments) > 1
    /\ request.MergeSegments
    /\ ~request.ExportSeparate
    /\ ~request.ExportChapters
    /\ Op.OutputFiles = <<MergedPath>>
    /\ Len(tempFiles) = Len(segments)
    /\ TempFilesOnDisk = {}

\* C11: with exactly one effective segment runExport calls CutVideo once,
\* on the plain output path, makes no merge and writes no chapters file,
\* whatever the flags are; on success OutputFiles is that one path.
SingleCut == [kind |-> "cut", output |-> SinglePath]
C11_SingleSegmentSingleCut ==
    (Exists /\ Len(segments) = 1) =>
      /\ branch \in {"single", "finish"}
      /\ Len(spawned) <= 1
      /\ \A i \in DOMAIN spawned : spawned[i] = SingleCut
      /\ files \subseteq {SinglePath}
      /\ tempFiles = <<>>
      /\ (pc = "done" =>
            /\ (spawned = <<>> => ret = <<"failed to start ffmpeg">>)
            /\ (Op.Status = "completed" =>
                  /\ spawned = <<SingleCut>>
                  /\ Op.OutputFiles = <<SinglePath>>))
C11_Witness ==
    /\ Exists
    /\ Len(segments) = 1
    /\ request.MergeSegments
    /\ request.ExportSeparate
    /\ request.ExportChapters
    /\ pc = "done"
    /\ Op.Status = "completed"
    /\ Op.OutputFiles = <<SinglePath>>

\* C12: every stored segment has start >= 0 and, when it has an end,
\* end > start, and every CutVideo call of an export has end > start.
ValidWindow(seg) == seg.Start >= 0 /\ (seg.HasEnd => seg.End > seg.Start)
C12_NoNonPositiveWindow ==
    /\ \A p \in DOMAIN projects : \A i \in DOMAIN projects[p].Segments :
         ValidWindow(projects[p].Segments[i])
    /\ (proc.running /\ proc.kind = "cut") => proc.duration > 0

\* C13: MergeVideos called with no input returns an error at once: it
\* writes no list file and spawns no process.
C13_EmptyMergeRejected ==
    (mpc # "idle" /\ mInputs = <<>>) =>
      /\ ConcatFile(MergedPath) \notin files
      /\ spawned = <<>>
      /\ ~proc.running
      /\ (mpc # "call" => ret # Nil)

\* C14: once the background task of a download has finished, the record in
\* its metadata file has the status and the video id of the record in
\* memory, and a completed download that left the registry is answered by
\* GetDownload from the file as completed with its video id.
GetDownload(id) == IF id \in downloads THEN <<download>> ELSE stored
C14_PersistedMatchesMemory ==
    dpc = "done" =>
      /\ stored # <<>>
      /\ stored[1].Status = download.Status
      /\ stored[1].VideoID = download.VideoID
      /\ (download.Status = "completed" /\ DownloadID \notin downloads =>
            /\ GetDownload(DownloadID) # <<>>
            /\ GetDownload(DownloadID)[1].Status = "completed"
            /\ GetDownload(DownloadID)[1].VideoID = VideoID)

\* ---- the range streamer

\* the two bounds of a header of the shape bytes=A-B
RangeParts == Split(TrimPrefix(rHeader, BytesPrefix), "-", <<>>, <<>>)
Numeral(tok) == tok # <<>> /\ \A i \in DOMAIN tok : IsDigit(tok[i])
BothBounds ==
    /\ HasPrefix(rHeader, BytesPrefix)
    /\ Len(RangeParts) = 2
    /\ Numeral(RangeParts[1])
    /\ Numeral(RangeParts[2])
OpenEnded ==
    /\ HasPrefix(rHeader, BytesPrefix)
    /\ Len(RangeParts) = 2
    /\ Numeral(RangeParts[1])
    /\ RangeParts[2] = <<>>

\* a <= b for numerals of any length
NumLeq(a, b) ==
    LET x == StripZeros([i \in DOMAIN a |-> DigitVal(a[i])])
        y == StripZeros([i \in DOMAIN b |-> DigitVal(b[i])])
    IN  Len(x) < Len(y) \/ (Len(x) = Len(y) /\ LexLeq(x, y))
\* 0 <= A <= B < fileSize
WithinFile ==
    /\ NumLeq(RangeParts[1], RangeParts[2])
    /\ NumLeq(RangeParts[2], Itoa(rSize))
    /\ ~NumLeq(Itoa(rSize), RangeParts[2])

NotSatisfiableAnswer ==
    /\ rResp.status = 416
    /\ rResp.error = "range not satisfiable"
    /\ rResp.contentRange = <<"bytes */", rSize>>
    /\ rSeeks = 0
    /\ rReads = 0
    /\ rChunks = <<>>

\* C15: a request bytes=A-B with both bounds present and not
\* 0 <= A <= B < fileSize is answered 416 with Content-Range: bytes */fileSize
\* and without a seek or a read, on an empty file every range.
C15_OutOfBoundsNotSatisfiable ==
    (rpc # "call" /\ rpc # "idle" /\ BothBounds /\ ~WithinFile)
        => NotSatisfiableAnswer

\* C16: a satisfiable range A-B is answered 206 with Content-Range: bytes
\* A-B/fileSize and Content-Length B-A+1; copyN never writes more than the
\* Content-Length, what it writes is the file from offset A on without a gap,
\* each read is at most the 32 KiB buffer, and when copyN returns without an
\* error the bytes written are exactly those at the offsets A..B.
C16_SatisfiableRangeByteExact ==
    /\ (rpc \in {"copy", "done"} /\ BothBounds /\ WithinFile /\ rResp.status # 500)
         => LET A == ParseInt(RangeParts[1]).val
                B == ParseInt(RangeParts[2]).val
            IN  /\ rResp.status = 206
                /\ rResp.contentRange = <<"bytes ", A, "-", B, "/", rSize>>
                /\ rResp.contentLength = B - A + 1
                /\ rSeeks = 1
                /\ rChunks \in {<<>>, <<[off |-> A, len |-> rWritten]>>}
                /\ (rpc = "done" /\ rErr = "")
                     => rChunks = <<[off |-> A, len |-> B - A + 1]>>
    /\ rResp.status = 206
         => /\ rWritten <= rResp.contentLength
            /\ rWritten <= rReads * BufSize
            /\ rChunks = <<>> <=> rWritten = 0
            /\ (rpc = "done" /\ rErr = "") => rWritten = rResp.contentLength

C16_Witness ==
    /\ rpc = "done"
    /\ rErr = ""
    /\ rSize = 2 * BufSize + 5
    /\ rHeader = BytesPrefix \o <<"1", "-">> \o Itoa(2 * BufSize + 4)
    /\ rResp.status = 206
    /\ rReads = 3
    /\ rChunks = <<[off |-> 1, len |-> 2 * BufSize + 4]>>

\* the window [A, min(A + 10 MiB - 1, fileSize - 1)] is declared
WindowDeclared(A) ==
    LET E == Min(A + MaxChunkSize - 1, rSize - 1) IN
      /\ rResp.contentRange = <<"bytes ", A, "-", E, "/", rSize>>
      /\ rResp.contentLength = E - A + 1
      /\ rResp.contentLength <= MaxChunkSize
      /\ E <= rSize - 1
      /\ rN = rResp.contentLength
      /\ rWritten <= rResp.contentLength
      /\ rChunks \in {<<>>, <<[off |-> A, len |-> rWritten]>>}
StartBelowSize == ~NumLeq(Itoa(rSize), RangeParts[1])
OpenEndedServed ==
    /\ rResp.status \in {206, 500}
    /\ rResp.status = 206 => WindowDeclared(ParseInt(RangeParts[1]).val)

\* C17: an open-ended range bytes=A- with 0 <= A < fileSize is served with
\* the window [A, min(A + 10 MiB - 1, fileSize - 1)], at most 10 MiB long and
\* ending before fileSize, and every A >= fileSize is answered as not
\* satisfiable.
C17_OpenEndedWindow ==
    (rpc \in {"copy", "done"} /\ OpenEnded)
        => IF StartBelowSize THEN OpenEndedServed ELSE NotSatisfiableAnswer

\* ---- the progress parser

\* the form [-]HH:MM:SS.CC with exactly two digits in each field
TwoDigitForm(str) ==
    LET body == IF str # <<>> /\ Head(str) = "-" THEN Tail(str) ELSE str IN
      /\ Len(body) = 11
      /\ body[3] = ":" /\ body[6] = ":" /\ body[9] = "."
      /\ \A i \in {1, 2, 4, 5, 7, 8, 10, 11} : IsDigit(body[i])
\* H*3600 + M*60 + S + CC/100 of such a string, in hundredths, with its sign
TwoDigitValue(str) ==
    LET body == IF str # <<>> /\ Head(str) = "-" THEN Tail(str) ELSE str
        N(i) == DigitVal(body[i]) * 10 + DigitVal(body[i + 1])
        v == (N(1) * 3600 + N(4) * 60 + N(7)) * 100 + N(10)
    IN  IF body = str THEN v ELSE 0 - v

\* C19: parseFFmpegTime accepts a string if and only if it has the form
\* [-]HH:MM:SS.CC with exactly two digits in each field, and returns
\* H*3600 + M*60 + S + CC/100, negated after a leading '-'; every other string
\* is an error.
C19_AcceptsExactlyTwoDigitForm ==
    tpc = "done" =>
      /\ tResult[1].err = "" <=> TwoDigitForm(tStr)
      /\ TwoDigitForm(tStr) => tResult[1].totalSeconds = TwoDigitValue(tStr)

\* the line has the video shape or the audio-only shape
HasShape(line) ==
    \E i \in 1..Len(line.fields) :
      /\ line.fields[i].key = "time"
      /\ i > 1
      /\ line.fields[i - 1].key \in SizeKeys
\* the elapsed time the line carries
TimeOfLine(line) ==
    line.fields[CHOOSE i \in 1..Len(line.fields) : line.fields[i].key = "time"].val
\* min(t/D, 1.0) in hundredths, t in hundredths of a second
Ratio(t, D) == IF t >= D * 100 THEN 100 ELSE (t * 100) \div (D * 100)

\* C18: for a line of the video or the audio-only shape carrying the time t,
\* ParseLine returns min(t/D, 1.0) when D > 0 and t >= 0 is well-formed, and
\* -1 when D <= 0, when t is negative or malformed or when the line has
\* neither shape; the result is -1 or within [0,1].
C18_ProgressOrSentinel ==
    lpc = "done" =>
      /\ lResult =
           IF /\ HasShape(lLine)
              /\ TwoDigitForm(TimeOfLine(lLine))
              /\ TwoDigitValue(TimeOfLine(lLine)) >= 0
              /\ lDuration > 0
           THEN Ratio(TwoDigitValue(TimeOfLine(lLine)), lDuration)
           ELSE 0 - 1
      /\ lResult \in {0 - 1} \cup 0..100

\* ---- the error extraction

StderrLinesOf == Split(eStderr, "\n", <<>>, <<>>)
Last(S) == CHOOSE i \in S : \A j \in S : j <= i
\* the failure words error / Error / Invalid / failed / No such
FailureWords ==
    {<<"e", "r", "r", "o", "r">>,
     <<"E", "r", "r", "o", "r">>,
     <<"I", "n", "v", "a", "l", "i", "d">>,
     <<"f", "a", "i", "l", "e", "d">>,
     <<"N", "o", " ", "s", "u", "c", "h">>}
IndicatorLines ==
    {i \in DOMAIN StderrLinesOf :
        \E w \in FailureWords : Contains(StderrLinesOf[i], w)}
NonEmptyLines == {i \in DOMAIN StderrLinesOf : StderrLinesOf[i] # <<>>}
NonBlankLines ==
    {i \in DOMAIN StderrLinesOf :
        \E k \in DOMAIN StderrLinesOf[i] : ~IsSpace(StderrLinesOf[i][k])}

KeyTimes ==
    {kOutput.lines[i][1].num : i \in {j \in DOMAIN kOutput.lines :
        /\ Len(kOutput.lines[j]) >= 2
        /\ kOutput.lines[j][2] = "1"
        /\ kOutput.lines[j][1] # NotNum}}
Aligned(t) == \E kf \in KeyTimes : kf - t \in (0 - 10)..10

\* C21: the cut is taken as lossless if and only if some keyframe lies within
\* 0.1 s of the start and some keyframe lies within 0.1 s of the end; when the
\* keyframes cannot be extracted SmartCut takes the re-encoding path and does
\* not return the probe error.
C21_LosslessIffBothAligned ==
    kpc \in {"cut", "done"} =>
      /\ kOutput.err = <<>> =>
           (kPath = "CutVideo" <=> (Aligned(kStart) /\ Aligned(kEnd)))
      /\ kOutput.err # <<>> => kPath = "performSmartCut"
      /\ kPath \in {"CutVideo", "performSmartCut"}
      /\ kRet \in {<<>>, <<"ffmpeg failed">>}

C21_Witness ==
    /\ kpc = "done"
    /\ KeyTimes = {0, 200, 400, 600}
    /\ kStart = 205
    /\ kEnd = 595
    /\ kPath = "CutVideo"

\* ---- the Operation registry

\* C22: under any interleaving of Export and GetStatus requests no two
\* goroutines are inside an access of the registry map at the same time.
C22_RegistryAccessExclusive ==
    gpc # <<>> => Cardinality({g \in Handlers : gpc[g] = "access"}) <= 1

\* ---- Execute and its reader

\* C23: Execute returns only after the process has exited and the stderr
\* reader has finished, no progress callback runs after Execute has returned,
\* and the error text is taken from the complete stderr of the process.
C23_ResultAfterProcessAndReader ==
    /\ xMain = "returned" => (xProc = "exited" /\ xReader = "done")
    /\ ~xLate
    /\ (xMain = "returned" /\ xResult[1].failed)
         => xResult[1].stderr = xWritten

\* ---- the merge export

InMergeExport == branch \in {"merged", "default"}
\* the cuts of the first n fragments, in the order of the segment list
FragmentCuts(n) == [i \in 1..n |-> [kind |-> "cut", output |-> TempPath(i - 1)]]
FragmentsWritten(n) == \A i \in 1..n : TempPath(i - 1) \in files

\* C24: in a merge export the fragment cuts run one at a time in the order of
\* the effective segment list, each after the one before has succeeded;
\* MergeVideos runs only after every fragment cut succeeded, and its list
\* names the fragments in that same order.
C24_FragmentsInOrderThenMerge ==
    (InMergeExport /\ proc.running) =>
      IF proc.kind = "cut"
      THEN /\ spawned = FragmentCuts(idx)
           /\ proc.output = TempPath(idx - 1)
           /\ proc.args = <<segments[idx].Start, EndOf(segments[idx])>>
           /\ FragmentsWritten(idx - 1)
      ELSE /\ spawned = Append(FragmentCuts(Len(segments)),
                               [kind |-> "merge", output |-> MergeOutput(branch)])
           /\ proc.args = [i \in 1..Len(segments) |->
                             <<"file '", TempPath(i - 1), "'">>]
           /\ FragmentsWritten(Len(segments))

C24_Witness ==
    /\ InMergeExport
    /\ proc.running
    /\ proc.kind = "merge"
    /\ Len(segments) = 2
    /\ proc.args = <<<<"file '", TempPath(0), "'">>, <<"file '", TempPath(1), "'">>>>

\* C25: after MergeVideos has returned, on success and on every failure of
\* the external process, the list file <output>.concat.txt is gone.
C25_ConcatListRemoved ==
    (mpc = "returned" /\ ret # <<"failed to create concat file">>)
        => ConcatFile(MergedPath) \notin files

C25_Witness ==
    /\ mpc = "returned"
    /\ spawned # <<>>
    /\ ret = <<"ffmpeg failed: ", "stderr">>
    /\ ConcatFile(MergedPath) \notin files

\* C26: during a merge export no fragment cut changes the progress of the
\* Operation; it changes only in the callback of the MergeVideos run.
C26_FragmentCutsKeepProgress ==
    [][(Exists /\ Exists' /\ InMergeExport /\ Op'.Progress # Op.Progress)
         => (pc = "exec" /\ proc.running /\ proc.kind = "merge")]_vars

C26_Witness ==
    /\ Exists
    /\ InMergeExport
    /\ proc.running
    /\ proc.kind = "merge"
    /\ Len(spawned) = 3
    /\ Op.Progress > 0

\* ---- the video counter

\* C27: any two calls of GetNextVideoNumber, also calls that run at the same
\* time, return different numbers.
C27_VideoNumbersDistinct ==
    npc # <<>> =>
      \A g, h \in Callers :
         (g # h /\ npc[g] = "done" /\ npc[h] = "done") => nGot[g] # nGot[h]

\* ---- concurrent segment mutations

\* the Segments left by the calls made one after the other, in the orders in
\* which both succeed
SerialResults(segs, m1, m2) ==
    {Mutated(Mutated(segs, ms[1]), ms[2]) :
       ms \in {o \in {<<m1, m2>>, <<m2, m1>>} :
                 /\ ~NotFound(segs, o[1])
                 /\ ~NotFound(Mutated(segs, o[1]), o[2])}}

\* C28: when the segment mutations made on one project have all returned
\* success, the stored project holds the effect of every one of them: it is
\* what the calls leave when made one after the other.
C28_NoMutationLost ==
    (spc # <<>> /\ \A e \in Editors : spc[e] = "ok")
      => sStored \in SerialResults(sInitial, sMutation["e1"], sMutation["e2"])

\* ---- the sessions

\* C29: a ClearEverything started by sessionCleanupLoop or by SessionEnd
\* never runs while the session registry holds a session.
C29_NoCleanupWhileSessionActive ==
    hClearing > 0 => DOMAIN hSessions = {}

\* ---- the fragments of a failed merge export

\* the merge export failed: in a fragment cut or in the merge step
CutFailed == exportErr # Nil /\ exportErr[1] = "failed to cut segment "
MergeStepFailed == exportErr # Nil /\ exportErr[1] = "failed to merge segments: "
\* the fragments whose cut succeeded before the failure
FragmentsCut ==
    IF MergeStepFailed THEN Range(tempFiles)
    ELSE {tempFiles[i] : i \in 1..(Len(tempFiles) - 1)}
FragmentsKeptOnFailure ==
    (Exists /\ Op.Status = "failed" /\ (CutFailed \/ MergeStepFailed))
      => FragmentsCut \subseteq files

\* C30: the fragment files are deleted only on the success path of
\* exportMergedSegments: a file of temp/ leaves the disk only when MergeVideos
\* has returned without error, and when a fragment cut or the merge step has
\* failed, every fragment cut so far is still on disk once the Operation is
\* failed.
C30_FragmentsDeletedOnlyOnSuccess ==
    [][/\ (TempFilesOnDisk \ files' # {}) => (pc = "mergeReturn" /\ ret = Nil)
       /\ FragmentsKeptOnFailure']_vars

C30_Witness ==
    /\ Exists
    /\ Op.Status = "failed"
    /\ pc = "done"
    /\ MergeStepFailed
    /\ Len(tempFiles) = 2
    /\ Range(tempFiles) \subseteq files

====
